---------------------------- MODULE Spec2Model ----------------------------
(***************************************************************************)
(* The asynchronous batch-task engine of the feedback-sheet generator:     *)
(* the in-memory task registry (task_status / task_cancel), the three      *)
(* cancellable batch workers (individuals, groups, mixed), the             *)
(* find-before-create lookups against the remote folder tree, and the      *)
(* cancel endpoint.  One worker step is one remote call together with the  *)
(* local bookkeeping that follows it, or one write to the registry.        *)
(* The export of a folder tree (download_folder_as_pdfs) is modelled       *)
(* beside it, with a state of its own.                                     *)
(***************************************************************************)
EXTENDS Integers, Sequences, FiniteSets, TLC

(***************************************************************************)
(* Bounds of the model.                                                    *)
(***************************************************************************)
MaxTasks == 2
MaxRows == 2
MaxConcRows == 1
PageSize == 2
MaxName == 3
MaxLabel == 4

(***************************************************************************)
(* Program constants.                                                      *)
(***************************************************************************)
FOLDER_MT == "application/vnd.google-apps.folder"
SHEET_MT == "application/vnd.google-apps.spreadsheet"
OTHER_MT == "text/csv"

Root == 0
NoId == -1
None == [id |-> NoId, name |-> "", mimeType |-> "", parent |-> NoId]

Tasks == 1..MaxTasks
Terminal == {"completed", "cancelled", "error"}

(***************************************************************************)
(* Rosters.  A parsed Group/Members roster is a sequence of                *)
(* <<label, members>> rows with non-empty member lists; a parsed           *)
(* Student Name roster is a non-empty sequence of names.                   *)
(***************************************************************************)
RowSet == { <<"1", <<"A", "B">>>>, <<"2", <<"A">>>> }
NameSet == {"A", "B"}

SeqsUpTo(S, n) == UNION { [1..k -> S] : k \in 0..n }

RowRosters == SeqsUpTo(RowSet, MaxRows)
NameRosters == SeqsUpTo(NameSet, MaxRows) \ {<< >>}

Label(row) == row[1]
Members(row) == row[2]

\* What a submission endpoint is handed: a file that is a .csv upload or not,
\* that the loader parses or not, with the expected header or not, and the
\* roster the parser reads from it; the mixed endpoint also gets the three
\* optional template ids, each given or not.
\* A file that is not read yields no roster.
NameUploads ==
    [csv : {TRUE}, parse : {"ok"}, names : SeqsUpTo(NameSet, MaxRows)]
    \cup [csv : {TRUE}, parse : {"unparsable", "headerless"}, names : {<< >>}]
    \cup [csv : {FALSE}, parse : {"ok"}, names : {<< >>}]
RowUploads ==
    [csv : {TRUE}, parse : {"ok"}, rows : RowRosters]
    \cup [csv : {TRUE}, parse : {"unparsable", "headerless"}, rows : {<< >>}]
    \cup [csv : {FALSE}, parse : {"ok"}, rows : {<< >>}]
TemplateIds ==
    [groupTemplateId : BOOLEAN, indivGroupTemplateId : BOOLEAN,
     indivTemplateId : BOOLEAN]

\* The answers of the endpoints: none yet, the 400 and the 404 of an
\* HTTPException, the task id of an accepted submission, the status record.
NoResponse == [code |-> "none"]
BadRequest == [code |-> "400"]
NotFound(t) == [code |-> "404", task_id |-> t]
Accepted(t) == [code |-> "200", task_id |-> t]

(***************************************************************************)
(* Target names, as the workers format them.                               *)
(***************************************************************************)
IndividualsName == "Individuals"
GroupFolderName(g) == "Group " \o g
GroupSheetName(g) == "Group " \o g \o " - Requirements"
ContributionName(m) == m \o " - Individual Contribution"
FeedbackName(n) == n \o " - Individual Feedback"

(***************************************************************************)
(* Arithmetic helpers.                                                     *)
(***************************************************************************)
Max(a, b) == IF a >= b THEN a ELSE b

\* round(n / d, 0) as Python rounds: to the nearest integer, a tie to the even
\* neighbour.
RoundHalfEven(n, d) ==
    LET q == n \div d
        r == n % d
    IN  IF 2 * r < d THEN q
        ELSE IF 2 * r > d THEN q + 1
        ELSE IF q % 2 = 0 THEN q ELSE q + 1

\* round(step * 100 / max(1, total), 2), in hundredths of a percent point.
Percent(step, total) == RoundHalfEven(step * 10000, Max(1, total))
PercentTrunc(step, total) == (step * 10000) \div Max(1, total)

(***************************************************************************)
(* Roster arithmetic of the endpoints and the workers.                     *)
(***************************************************************************)
\* groups_rows = [(g, m) for g, m in rows if len(m) > 1]
RECURSIVE GroupsRows(_)
GroupsRows(rs) ==
    IF rs = << >> THEN << >>
    ELSE IF Len(Members(Head(rs))) > 1 THEN <<Head(rs)>> \o GroupsRows(Tail(rs))
         ELSE GroupsRows(Tail(rs))

\* solo_names = [m[0] for _, m in rows if len(m) == 1]
RECURSIVE SoloNamesFirst(_)
SoloNamesFirst(rs) ==
    IF rs = << >> THEN << >>
    ELSE <<Members(Head(rs))[1]>> \o SoloNamesFirst(Tail(rs))
RECURSIVE SoloNames(_)
SoloNames(rs) ==
    IF rs = << >> THEN << >>
    ELSE IF Len(Members(Head(rs))) = 1
         THEN <<Members(Head(rs))[1]>> \o SoloNames(Tail(rs))
         ELSE SoloNames(Tail(rs))

\* sum(1 + 1 + len(members) for _, members in rows)
RECURSIVE RowOps(_)
RowOps(rs) ==
    IF rs = << >> THEN 0 ELSE 1 + 1 + Len(Members(Head(rs))) + RowOps(Tail(rs))
RECURSIVE RowOpsShort(_)
RowOpsShort(rs) ==
    IF rs = << >> THEN 0 ELSE 1 + Len(Members(Head(rs))) + RowOpsShort(Tail(rs))

\* The total the endpoint stores at submission.
SubmitTotalShort(k, rs, ns) ==
    CASE k = "individuals" -> Len(ns)
      [] k = "groups" -> RowOpsShort(rs)
      [] OTHER -> RowOpsShort(GroupsRows(rs)) + Len(ns)
SubmitTotal(k, rs, ns) ==
    CASE k = "individuals" -> Len(ns)
      [] k = "groups" -> RowOps(rs)
      [] OTHER -> RowOps(GroupsRows(rs)) + Len(ns)

\* The total the worker computes for itself.
WorkerTotalShort(k, rs, ns) ==
    CASE k = "individuals" -> Len(ns)
      [] k = "groups" -> RowOpsShort(rs)
      [] OTHER -> RowOpsShort(GroupsRows(rs)) + Len(ns)
WorkerTotal(k, rs, ns) ==
    CASE k = "individuals" -> Len(ns)
      [] k = "groups" -> RowOps(rs)
      [] OTHER -> RowOps(GroupsRows(rs)) + Len(ns)

(***************************************************************************)
(* State.                                                                  *)
(*   drive, nextId      the remote folder tree: a set of items             *)
(*                      [id, name, mimeType, parent]; ids double as links  *)
(*   status .. finishedAt, flag                                            *)
(*                      the registry: task_status[t] and task_cancel[t]    *)
(*   kind, rows, names  what the endpoint handed to the worker             *)
(*   pc .. indiv        the worker's position and local variables          *)
(*   cancelPc, cancelResp                                                  *)
(*                      a cancel request in flight, and its last answer    *)
(*   calls, iter, cancelAt, setOn                                          *)
(*                      history: the remote mutations each worker issued,  *)
(*                      the iterations it began, the iteration whose check *)
(*                      was next when the flag was first set, and the      *)
(*                      statuses the task had when its flag was set        *)
(*   submitResp, getResp                                                   *)
(*                      the last answer of a submission endpoint and of    *)
(*                      the status endpoint                                *)
(*   raised             history: the tasks in whose worker a call raised   *)
(*   tree, skipIds      what the export walks: the folder tree it is given *)
(*                      and the ids it is told to leave out                *)
(*   wpc, wstack        the export's position: the calls of walk in        *)
(*                      progress, innermost last                           *)
(*   wfiles             the local directory the export writes into         *)
(*   wops               history: the operations the export has issued      *)
(*   arg, ret           one call of a helper function on its own: what it  *)
(*                      is given and what it returns                       *)
(***************************************************************************)
VARIABLES drive, nextId,
          status, progress, stResults, error, finishedAt, flag,
          kind, rows, names,
          pc, results, step, rowIdx, memIdx, nameIdx, folder, indiv,
          cancelPc, cancelResp,
          calls, iter, cancelAt, setOn,
          submitResp, getResp, raised,
          tree, skipIds, wpc, wstack, wops, wfiles,
          arg, ret

remoteVars == <<drive, nextId>>
registryVars == <<status, progress, stResults, error, finishedAt>>
inputVars == <<kind, rows, names>>
localVars == <<results, step, rowIdx, memIdx, nameIdx, folder, indiv>>
cancelVars == <<flag, cancelPc, cancelResp, cancelAt, setOn>>
respVars == <<submitResp, getResp>>
walkVars == <<tree, skipIds, wpc, wstack, wops, wfiles>>
callVars == <<arg, ret>>
taskVars == <<drive, nextId, status, progress, stResults, error, finishedAt,
              flag, kind, rows, names, pc, results, step, rowIdx, memIdx,
              nameIdx, folder, indiv, cancelPc, cancelResp, calls, iter,
              cancelAt, setOn, submitResp, getResp, raised>>
vars == <<drive, nextId, status, progress, stResults, error, finishedAt, flag,
          kind, rows, names, pc, results, step, rowIdx, memIdx, nameIdx,
          folder, indiv, cancelPc, cancelResp, calls, iter, cancelAt, setOn,
          submitResp, getResp, raised, tree, skipIds, wpc, wstack, wops,
          wfiles, arg, ret>>

(***************************************************************************)
(* What the destination folder may hold before the first run: any subset   *)
(* of these items that keeps a child with its parent: a file that bears a  *)
(* group folder's name, and a group folder and an "Individuals" folder     *)
(* each with a sheet of an earlier run.  No folder starts with two         *)
(* children of one name.                                                   *)
(***************************************************************************)
InitialItems ==
    { [id |-> 1, name |-> GroupFolderName("1"), mimeType |-> OTHER_MT, parent |-> Root],
      [id |-> 2, name |-> GroupFolderName("2"), mimeType |-> FOLDER_MT, parent |-> Root],
      [id |-> 3, name |-> ContributionName("A"), mimeType |-> SHEET_MT, parent |-> 2],
      [id |-> 4, name |-> IndividualsName, mimeType |-> FOLDER_MT, parent |-> Root],
      [id |-> 5, name |-> FeedbackName("A"), mimeType |-> SHEET_MT, parent |-> 4] }
FirstFreeId == Cardinality(InitialItems) + 1

InitialContents ==
    { c \in SUBSET InitialItems :
        \A f \in c : f.parent # Root => \E g \in c : g.id = f.parent }

\* No task submitted, no request answered.
InitTasks ==
    /\ nextId = FirstFreeId
    /\ status = [t \in Tasks |-> "none"]
    /\ progress = [t \in Tasks |-> [current |-> 0, total |-> 0, percent |-> 0]]
    /\ stResults = [t \in Tasks |-> << >>]
    /\ error = [t \in Tasks |-> FALSE]
    /\ finishedAt = [t \in Tasks |-> FALSE]
    /\ flag = [t \in Tasks |-> FALSE]
    /\ kind = [t \in Tasks |-> "none"]
    /\ rows = [t \in Tasks |-> << >>]
    /\ names = [t \in Tasks |-> << >>]
    /\ pc = [t \in Tasks |-> "none"]
    /\ results = [t \in Tasks |-> << >>]
    /\ step = [t \in Tasks |-> 0]
    /\ rowIdx = [t \in Tasks |-> 0]
    /\ memIdx = [t \in Tasks |-> 0]
    /\ nameIdx = [t \in Tasks |-> 0]
    /\ folder = [t \in Tasks |-> NoId]
    /\ indiv = [t \in Tasks |-> NoId]
    /\ cancelPc = [t \in Tasks |-> "idle"]
    /\ cancelResp = [t \in Tasks |-> "none"]
    /\ calls = [t \in Tasks |-> << >>]
    /\ iter = [t \in Tasks |-> 0]
    /\ cancelAt = [t \in Tasks |-> 0]
    /\ setOn = [t \in Tasks |-> {}]
    /\ submitResp = NoResponse
    /\ getResp = NoResponse
    /\ raised = {}

\* No export running, none asked for.
InitNoWalk ==
    /\ tree = {}
    /\ skipIds = {}
    /\ wpc = "idle"
    /\ wstack = << >>
    /\ wops = << >>
    /\ wfiles = {}

\* No helper called on its own.
NoCall == [fn |-> "none"]
InitNoCall ==
    /\ arg = NoCall
    /\ ret = NoCall

Init ==
    /\ drive \in InitialContents
    /\ InitTasks
    /\ InitNoWalk
    /\ InitNoCall

(***************************************************************************)
(* The remote store, as the workers use it.                                *)
(***************************************************************************)
\* files().list(q = name and parent, pageSize = 1): the children of that name,
\* of any type.  The store returns one of them, in no stated order.
FindNothing(parent, name) == {}
FindInFolder(parent, name) ==
    { f \in drive : f.name = name /\ f.parent = parent }

\* files().list(q = name and mimeType = folder and parent, pageSize = 1)
ListSubfolders(parent, name) ==
    { f \in drive : f.name = name /\ f.mimeType = FOLDER_MT /\ f.parent = parent }

\* files[0] if files else None
FirstOf(files) == IF files = {} THEN {None} ELSE files

NewItem(name, mt, parent) ==
    [id |-> nextId, name |-> name, mimeType |-> mt, parent |-> parent]

\* One remote mutation as the history keeps it.
Call(t, op, parent, name, unit) ==
    [op |-> op, parent |-> parent, name |-> name, unit |-> unit,
     flagged |-> flag[t],
     dup |-> \E f \in drive : f.parent = parent /\ f.name = name]

(***************************************************************************)
(* Submission: the three endpoints.  Each allocates a task id, stores the  *)
(* flag and the initial record, and schedules the worker.                  *)
(***************************************************************************)
FreshId(t) == pc[t] = "none" /\ \A u \in Tasks : u < t => pc[u] # "none"

\* raise HTTPException(status_code=400, ...): nothing but the answer.
RejectLate ==
    /\ submitResp' = BadRequest
    /\ \E t \in Tasks :
         /\ pc[t] = "none" /\ \A u \in Tasks : u < t => pc[u] # "none"
         /\ status' = [status EXCEPT ![t] = "queued"]
    /\ UNCHANGED <<remoteVars, progress, stResults, error, finishedAt, inputVars,
                   pc, localVars, cancelVars, calls, iter, getResp, raised, walkVars, callVars>>
Reject ==
    /\ submitResp' = BadRequest
    /\ UNCHANGED <<remoteVars, registryVars, inputVars, pc, localVars, cancelVars,
                   calls, iter, getResp, raised, walkVars, callVars>>

\* The upload is not a .csv file, or reading it fails.
Unreadable(up) == ~up.csv \/ up.parse # "ok"

Register(t, k, rs, ns, total) ==
    /\ FreshId(t)
    /\ submitResp' = Accepted(t)
    /\ flag' = [flag EXCEPT ![t] = FALSE]
    /\ status' = [status EXCEPT ![t] = "queued"]
    /\ progress' = [progress EXCEPT
                      ![t] = [current |-> 0, total |-> total, percent |-> 0]]
    /\ stResults' = [stResults EXCEPT ![t] = << >>]
    /\ kind' = [kind EXCEPT ![t] = k]
    /\ rows' = [rows EXCEPT ![t] = rs]
    /\ names' = [names EXCEPT ![t] = ns]
    /\ pc' = [pc EXCEPT ![t] = "queued"]
    /\ UNCHANGED <<remoteVars, error, finishedAt, localVars, cancelPc,
                   cancelResp, calls, iter, cancelAt, setOn, getResp, raised, walkVars, callVars>>

generate_individuals(t, up) ==
    IF Unreadable(up) \/ up.names = << >>
    THEN Reject
    ELSE Register(t, "individuals", << >>, up.names,
                  SubmitTotal("individuals", << >>, up.names))

generate_groups(t, up) ==
    IF Unreadable(up) \/ up.rows = << >>
    THEN Reject
    ELSE Register(t, "groups", up.rows, << >>, SubmitTotal("groups", up.rows, << >>))

generate_mixed(t, up, ids) ==
    LET groups_rows == GroupsRows(up.rows)
        solo_names == SoloNames(up.rows)
    IN  IF \/ Unreadable(up)
           \/ groups_rows # << >>
                /\ (~ids.groupTemplateId \/ ~ids.indivGroupTemplateId)
           \/ solo_names # << >> /\ ~ids.indivTemplateId
        THEN Reject
        ELSE Register(t, "mixed", up.rows, solo_names,
                      SubmitTotal("mixed", up.rows, solo_names))

(***************************************************************************)
(* The same submission statement by statement: the endpoint stores the     *)
(* flag in task_cancel, and in the next statement the record in            *)
(* task_status; get_task and cancel_task run in other threads and may read *)
(* the two maps in between.                                                *)
(***************************************************************************)
\* task_id = str(uuid4()); cancel_evt = threading.Event();
\* task_cancel[task_id] = cancel_evt
StoreFlag(t, k, rs, ns) ==
    /\ FreshId(t)
    /\ flag' = [flag EXCEPT ![t] = FALSE]
    /\ kind' = [kind EXCEPT ![t] = k]
    /\ rows' = [rows EXCEPT ![t] = rs]
    /\ names' = [names EXCEPT ![t] = ns]
    /\ pc' = [pc EXCEPT ![t] = "registering"]
    /\ UNCHANGED <<remoteVars, registryVars, localVars, cancelPc, cancelResp,
                   calls, iter, cancelAt, setOn, respVars, raised, walkVars,
                   callVars>>

\* task_status[task_id] = {...}; background_tasks.add_task(...);
\* return {"task_id": task_id}
StoreRecord(t) ==
    /\ pc[t] = "registering"
    /\ status' = [status EXCEPT ![t] = "queued"]
    /\ progress' = [progress EXCEPT
                      ![t] = [current |-> 0,
                              total |-> SubmitTotal(kind[t], rows[t], names[t]),
                              percent |-> 0]]
    /\ stResults' = [stResults EXCEPT ![t] = << >>]
    /\ submitResp' = Accepted(t)
    /\ pc' = [pc EXCEPT ![t] = "queued"]
    /\ UNCHANGED <<remoteVars, error, finishedAt, inputVars, localVars,
                   cancelVars, calls, iter, getResp, raised, walkVars, callVars>>

\* The three endpoints up to the statement that stores the flag.
SubmitFlag(t) ==
    \/ \E up \in NameUploads :
          IF Unreadable(up) \/ up.names = << >>
          THEN Reject
          ELSE StoreFlag(t, "individuals", << >>, up.names)
    \/ \E up \in RowUploads :
          IF Unreadable(up) \/ up.rows = << >>
          THEN Reject
          ELSE StoreFlag(t, "groups", up.rows, << >>)
    \/ \E up \in RowUploads, ids \in TemplateIds :
          IF \/ Unreadable(up)
             \/ GroupsRows(up.rows) # << >>
                  /\ (~ids.groupTemplateId \/ ~ids.indivGroupTemplateId)
             \/ SoloNames(up.rows) # << >> /\ ~ids.indivTemplateId
          THEN Reject
          ELSE StoreFlag(t, "mixed", up.rows, SoloNames(up.rows))

\* The entries of the two maps.
HasFlag(t) == pc[t] # "none"
HasRecord(t) == status[t] # "none"

(***************************************************************************)
(* Worker control flow.                                                    *)
(***************************************************************************)
\* The next row the group loop works on after row `from` (0: none).  The
\* mixed worker passes over rows of one member or less before its check.
NextRow(t, from) ==
    LET S == { r \in (from + 1)..Len(rows[t]) :
                 kind[t] = "groups" \/ Len(Members(rows[t][r])) > 1 }
    IN  IF S = {} THEN 0 ELSE CHOOSE r \in S : \A q \in S : r <= q

\* Where the worker goes once the group loop is over.
AfterRowsPc(t) ==
    IF kind[t] = "mixed" /\ names[t] # << >> THEN "subfolder_list"
    ELSE "complete_results"

RowLoopPc(t, from) == IF NextRow(t, from) # 0 THEN "row_check" ELSE AfterRowsPc(t)

\* Where the worker goes once the "Individuals" subfolder is at hand.
NameLoopPc(t) == IF names[t] # << >> THEN "name_check" ELSE "complete_results"

\* Where the worker goes after name number i.
AfterNamePcRelist(t, i) ==
    IF i < Len(names[t]) THEN "subfolder_list" ELSE "complete_results"
AfterNamePc(t, i) == IF i < Len(names[t]) THEN "name_check" ELSE "complete_results"

CurRow(t) == rows[t][rowIdx[t]]
CurLabel(t) == Label(CurRow(t))
CurMember(t) == Members(CurRow(t))[memIdx[t]]
CurName(t) == names[t][nameIdx[t]]

Total(t) == WorkerTotal(kind[t], rows[t], names[t])

\* _update_progress(task_id, step, total, meta)
UpdateProgressAhead(t, s, tot) ==
    [progress EXCEPT
       ![t] = [current |-> s + 1, total |-> tot, percent |-> Percent(s + 1, tot)]]
UpdateProgressTrunc(t, s, tot) ==
    [progress EXCEPT
       ![t] = [current |-> s, total |-> tot, percent |-> PercentTrunc(s, tot)]]
UpdateProgress(t, s, tot) ==
    [progress EXCEPT
       ![t] = [current |-> s, total |-> tot, percent |-> Percent(s, tot)]]

\* task_status[task_id]["status"] = "running"; drive = get_drive_service(...)
WorkerStartSilent(t) ==
    /\ pc[t] = "queued"
    /\ pc' = [pc EXCEPT ![t] = IF kind[t] = "individuals" THEN "subfolder_list"
                                ELSE RowLoopPc(t, 0)]
    /\ rowIdx' = [rowIdx EXCEPT ![t] = IF kind[t] = "individuals" THEN 0
                                        ELSE NextRow(t, 0)]
    /\ UNCHANGED <<remoteVars, status, progress, stResults, error, finishedAt, inputVars, respVars, raised, walkVars, callVars,
                   results, step, memIdx, nameIdx, folder, indiv, cancelVars,
                   calls, iter>>
WorkerStart(t) ==
    /\ pc[t] = "queued"
    /\ status' = [status EXCEPT ![t] = "running"]
    /\ pc' = [pc EXCEPT ![t] = IF kind[t] = "individuals" THEN "subfolder_list"
                                ELSE RowLoopPc(t, 0)]
    /\ rowIdx' = [rowIdx EXCEPT ![t] = IF kind[t] = "individuals" THEN 0
                                        ELSE NextRow(t, 0)]
    /\ UNCHANGED <<remoteVars, progress, stResults, error, finishedAt, inputVars, respVars, raised, walkVars, callVars,
                   results, step, memIdx, nameIdx, folder, indiv, cancelVars,
                   calls, iter>>

\* results.append(rec); step += 1; _update_progress(task_id, step, total, ...)
UnitDonePrepend(t, rec, nextPc) ==
    /\ results' = [results EXCEPT ![t] = <<rec>> \o @]
    /\ step' = [step EXCEPT ![t] = @ + 1]
    /\ progress' = UpdateProgress(t, step[t] + 1, Total(t))
    /\ pc' = [pc EXCEPT ![t] = nextPc]
UnitDone(t, rec, nextPc) ==
    /\ results' = [results EXCEPT ![t] = Append(@, rec)]
    /\ step' = [step EXCEPT ![t] = @ + 1]
    /\ progress' = UpdateProgress(t, step[t] + 1, Total(t))
    /\ pc' = [pc EXCEPT ![t] = nextPc]

\* A remote mutation: the store gains the item, the history the call.
Mutate(t, op, name, mt, parent, unit) ==
    /\ drive' = drive \cup {NewItem(name, mt, parent)}
    /\ nextId' = nextId + 1
    /\ calls' = [calls EXCEPT ![t] = Append(@, Call(t, op, parent, name, unit))]

(***************************************************************************)
(* The group loop of the groups and mixed workers.                         *)
(***************************************************************************)
\* if cancel_evt and cancel_evt.is_set(): ... return
RowCheckBlind(t) ==
    /\ pc[t] = "row_check"
    /\ pc' = [pc EXCEPT ![t] = "folder_find"]
    /\ iter' = [iter EXCEPT ![t] = @ + 1]
    /\ UNCHANGED <<remoteVars, registryVars, inputVars, respVars, raised, walkVars, callVars, localVars, cancelVars, calls>>
RowCheck(t) ==
    /\ pc[t] = "row_check"
    /\ IF flag[t]
       THEN /\ pc' = [pc EXCEPT ![t] = "cancel_results"]
            /\ UNCHANGED iter
       ELSE /\ pc' = [pc EXCEPT ![t] = "folder_find"]
            /\ iter' = [iter EXCEPT ![t] = @ + 1]
    /\ UNCHANGED <<remoteVars, registryVars, inputVars, respVars, raised, walkVars, callVars, localVars, cancelVars, calls>>

FolderRecord(t, id) == [type |-> "folder", group |-> CurLabel(t), link |-> id]

\* _find_or_create_folder: existing = _find_in_folder(drive, parent_id, name);
\* reuse it when it is a folder.
FolderFind(t) ==
    /\ pc[t] = "folder_find"
    /\ \E existing \in FirstOf(FindInFolder(Root, GroupFolderName(CurLabel(t)))) :
         IF existing # None /\ existing.mimeType = FOLDER_MT
         THEN /\ folder' = [folder EXCEPT ![t] = existing.id]
              /\ UnitDone(t, FolderRecord(t, existing.id), "sheet_find")
              /\ UNCHANGED <<status, stResults, error, finishedAt>>
         ELSE /\ pc' = [pc EXCEPT ![t] = "folder_create"]
              /\ UNCHANGED <<registryVars, results, step, folder>>
    /\ UNCHANGED <<remoteVars, inputVars, respVars, raised, walkVars, callVars, rowIdx, memIdx, nameIdx, indiv,
                   cancelVars, calls, iter>>

\* _find_or_create_folder: drive.files().create(folder)
FolderCreate(t) ==
    /\ pc[t] = "folder_create"
    /\ Mutate(t, "create_folder", GroupFolderName(CurLabel(t)), FOLDER_MT, Root, iter[t])
    /\ folder' = [folder EXCEPT ![t] = nextId]
    /\ UnitDone(t, FolderRecord(t, nextId), "sheet_find")
    /\ UNCHANGED <<status, stResults, error, finishedAt, inputVars, respVars, raised, walkVars, callVars, rowIdx, memIdx,
                   nameIdx, indiv, cancelVars, iter>>

MemberLoopPc(t) == IF Len(Members(CurRow(t))) > 0 THEN "member_find"
                   ELSE RowLoopPc(t, rowIdx[t])

\* The bookkeeping shared by the two outcomes of the group sheet.
SheetDone(t, rec) ==
    /\ UnitDone(t, rec, MemberLoopPc(t))
    /\ memIdx' = [memIdx EXCEPT ![t] = 1]
    /\ rowIdx' = [rowIdx EXCEPT ![t] = IF Len(Members(CurRow(t))) > 0 THEN @
                                        ELSE NextRow(t, @)]

\* existing_group_sheet = _find_in_folder(drive, folder_id, group_sheet_name)
SheetFind(t) ==
    /\ pc[t] = "sheet_find"
    /\ \E existing \in FirstOf(FindInFolder(folder[t], GroupSheetName(CurLabel(t)))) :
         IF existing # None
         THEN /\ SheetDone(t, [type |-> "group_sheet_existing",
                               group |-> CurLabel(t), link |-> existing.id])
              /\ UNCHANGED <<status, stResults, error, finishedAt>>
         ELSE /\ pc' = [pc EXCEPT ![t] = "sheet_copy"]
              /\ UNCHANGED <<registryVars, results, step, rowIdx, memIdx>>
    /\ UNCHANGED <<remoteVars, inputVars, respVars, raised, walkVars, callVars, nameIdx, folder, indiv, cancelVars,
                   calls, iter>>

\* grp = copy_as_google_sheet(drive, groupTemplateId, name, parents=[folder_id])
SheetCopy(t) ==
    /\ pc[t] = "sheet_copy"
    /\ Mutate(t, "copy", GroupSheetName(CurLabel(t)), SHEET_MT, folder[t], iter[t])
    /\ SheetDone(t, [type |-> "group_sheet", group |-> CurLabel(t), link |-> nextId])
    /\ UNCHANGED <<status, stResults, error, finishedAt, inputVars, respVars, raised, walkVars, callVars, nameIdx,
                   folder, indiv, cancelVars, iter>>

\* The bookkeeping shared by the two outcomes of a member's sheet.
MemberDone(t, rec) ==
    /\ UnitDone(t, rec, IF memIdx[t] < Len(Members(CurRow(t))) THEN "member_find"
                        ELSE RowLoopPc(t, rowIdx[t]))
    /\ memIdx' = [memIdx EXCEPT ![t] = IF @ < Len(Members(CurRow(t))) THEN @ + 1 ELSE @]
    /\ rowIdx' = [rowIdx EXCEPT ![t] = IF memIdx[t] < Len(Members(CurRow(t))) THEN @
                                        ELSE NextRow(t, @)]

\* existing = _find_in_folder(drive, folder_id, target)
MemberFindCancellable(t) ==
    /\ pc[t] = "member_find"
    /\ IF flag[t]
       THEN /\ pc' = [pc EXCEPT ![t] = "cancel_results"]
            /\ UNCHANGED <<registryVars, results, step, rowIdx, memIdx>>
       ELSE \E existing \in FirstOf(FindInFolder(folder[t], ContributionName(CurMember(t)))) :
              IF existing # None
              THEN /\ MemberDone(t, [type |-> "indiv_group_sheet_existing",
                                     member |-> CurMember(t), group |-> CurLabel(t),
                                     link |-> existing.id])
                   /\ UNCHANGED <<status, stResults, error, finishedAt>>
              ELSE /\ pc' = [pc EXCEPT ![t] = "member_copy"]
                   /\ UNCHANGED <<registryVars, results, step, rowIdx, memIdx>>
    /\ UNCHANGED <<remoteVars, inputVars, respVars, raised, walkVars, callVars, nameIdx, folder, indiv,
                   cancelVars, calls, iter>>
MemberFind(t) ==
    /\ pc[t] = "member_find"
    /\ \E existing \in FirstOf(FindInFolder(folder[t], ContributionName(CurMember(t)))) :
         IF existing # None
         THEN /\ MemberDone(t, [type |-> "indiv_group_sheet_existing",
                                member |-> CurMember(t), group |-> CurLabel(t),
                                link |-> existing.id])
              /\ UNCHANGED <<status, stResults, error, finishedAt>>
         ELSE /\ pc' = [pc EXCEPT ![t] = "member_copy"]
              /\ UNCHANGED <<registryVars, results, step, rowIdx, memIdx>>
    /\ UNCHANGED <<remoteVars, inputVars, respVars, raised, walkVars, callVars, nameIdx, folder, indiv, cancelVars,
                   calls, iter>>

\* copy = copy_as_google_sheet(drive, indivGroupTemplateId, name, parents=[folder_id])
MemberCopy(t) ==
    /\ pc[t] = "member_copy"
    /\ Mutate(t, "copy", ContributionName(CurMember(t)), SHEET_MT, folder[t], iter[t])
    /\ MemberDone(t, [type |-> "indiv_group_sheet", member |-> CurMember(t),
                      group |-> CurLabel(t), link |-> nextId])
    /\ UNCHANGED <<status, stResults, error, finishedAt, inputVars, respVars, raised, walkVars, callVars, nameIdx,
                   folder, indiv, cancelVars, iter>>

(***************************************************************************)
(* The "Individuals" subfolder and the name loop of the individuals and    *)
(* mixed workers.                                                          *)
(***************************************************************************)
\* The worker's bookkeeping once get_or_create_subfolder has returned `id`:
\* the mixed worker records an individuals_folder result.
SubfolderDone(t, id) ==
    /\ indiv' = [indiv EXCEPT ![t] = id]
    /\ results' = [results EXCEPT
                     ![t] = IF kind[t] = "mixed"
                            THEN Append(@, [type |-> "individuals_folder", link |-> id])
                            ELSE @]
    /\ nameIdx' = [nameIdx EXCEPT ![t] = 1]
    /\ pc' = [pc EXCEPT ![t] = NameLoopPc(t)]

\* get_or_create_subfolder: files().list(...), return files[0] if any
SubfolderList(t) ==
    /\ pc[t] = "subfolder_list"
    /\ \E f \in FirstOf(ListSubfolders(Root, IndividualsName)) :
         IF f # None
         THEN SubfolderDone(t, f.id)
         ELSE /\ pc' = [pc EXCEPT ![t] = "subfolder_create"]
              /\ UNCHANGED <<indiv, results, nameIdx>>
    /\ UNCHANGED <<remoteVars, registryVars, inputVars, respVars, raised, walkVars, callVars, step, rowIdx, memIdx,
                   folder, cancelVars, calls, iter>>

\* get_or_create_subfolder: files().create(folder)
SubfolderCreate(t) ==
    /\ pc[t] = "subfolder_create"
    /\ Mutate(t, "create_folder", IndividualsName, FOLDER_MT, Root, 0)
    /\ SubfolderDone(t, nextId)
    /\ UNCHANGED <<registryVars, inputVars, respVars, raised, walkVars, callVars, step, rowIdx, memIdx, folder,
                   cancelVars, iter>>

\* if cancel_evt and cancel_evt.is_set(): ... return
NameCheckEager(t) ==
    /\ pc[t] = "name_check"
    /\ pc' = [pc EXCEPT ![t] = "cancel_results"]
    /\ UNCHANGED <<remoteVars, registryVars, inputVars, respVars, raised, walkVars, callVars, localVars, cancelVars, calls, iter>>
NameCheckAnyFlag(t) ==
    /\ pc[t] = "name_check"
    /\ IF \E u \in Tasks : flag[u]
       THEN /\ pc' = [pc EXCEPT ![t] = "cancel_results"]
            /\ UNCHANGED iter
       ELSE /\ pc' = [pc EXCEPT ![t] = "name_find"]
            /\ iter' = [iter EXCEPT ![t] = @ + 1]
    /\ UNCHANGED <<remoteVars, registryVars, inputVars, respVars, raised, walkVars, callVars, localVars, cancelVars, calls>>
NameCheckBlind(t) ==
    /\ pc[t] = "name_check"
    /\ pc' = [pc EXCEPT ![t] = "name_find"]
    /\ iter' = [iter EXCEPT ![t] = @ + 1]
    /\ UNCHANGED <<remoteVars, registryVars, inputVars, respVars, raised, walkVars, callVars, localVars, cancelVars, calls>>
NameCheck(t) ==
    /\ pc[t] = "name_check"
    /\ IF flag[t]
       THEN /\ pc' = [pc EXCEPT ![t] = "cancel_results"]
            /\ UNCHANGED iter
       ELSE /\ pc' = [pc EXCEPT ![t] = "name_find"]
            /\ iter' = [iter EXCEPT ![t] = @ + 1]
    /\ UNCHANGED <<remoteVars, registryVars, inputVars, respVars, raised, walkVars, callVars, localVars, cancelVars, calls>>

\* The result record of one name: the individuals worker adds the folder link.
SoloRecord(t, type, id) ==
    IF kind[t] = "individuals"
    THEN [type |-> type, member |-> CurName(t), folder |-> indiv[t], link |-> id]
    ELSE [type |-> type, member |-> CurName(t), link |-> id]

\* results.append(...); the progress update of one name: (i, total) in the
\* individuals worker, (step + 1, total) in the mixed worker.
NameDone(t, rec) ==
    /\ results' = [results EXCEPT ![t] = Append(@, rec)]
    /\ step' = [step EXCEPT ![t] = IF kind[t] = "individuals" THEN @ ELSE @ + 1]
    /\ progress' = UpdateProgress(t, IF kind[t] = "individuals" THEN nameIdx[t]
                                     ELSE step[t] + 1, Total(t))
    /\ pc' = [pc EXCEPT ![t] = AfterNamePc(t, nameIdx[t])]
    /\ nameIdx' = [nameIdx EXCEPT ![t] = IF @ < Len(names[t]) THEN @ + 1 ELSE @]

\* existing = _find_in_folder(drive, indiv_folder_id, target_name)
NameFindBlind(t) ==
    /\ pc[t] = "name_find"
    /\ pc' = [pc EXCEPT ![t] = "name_copy"]
    /\ UNCHANGED <<remoteVars, registryVars, inputVars, respVars, raised, walkVars, callVars,
                   localVars, cancelVars, calls, iter>>
NameFind(t) ==
    /\ pc[t] = "name_find"
    /\ \E existing \in FirstOf(FindInFolder(indiv[t], FeedbackName(CurName(t)))) :
         IF existing # None
         THEN /\ NameDone(t, SoloRecord(t, "solo_sheet_existing", existing.id))
              /\ UNCHANGED <<status, stResults, error, finishedAt>>
         ELSE /\ pc' = [pc EXCEPT ![t] = "name_copy"]
              /\ UNCHANGED <<registryVars, results, step, nameIdx>>
    /\ UNCHANGED <<remoteVars, inputVars, respVars, raised, walkVars, callVars, rowIdx, memIdx, folder, indiv,
                   cancelVars, calls, iter>>

\* copy = copy_as_google_sheet(drive, indivTemplateId, name, parents=[indiv_folder_id])
NameCopy(t) ==
    /\ pc[t] = "name_copy"
    /\ Mutate(t, "copy", FeedbackName(CurName(t)), SHEET_MT, indiv[t], iter[t])
    /\ NameDone(t, SoloRecord(t, "solo_sheet", nextId))
    /\ UNCHANGED <<status, stResults, error, finishedAt, inputVars, respVars, raised, walkVars, callVars, rowIdx, memIdx,
                   folder, indiv, cancelVars, iter>>

(***************************************************************************)
(* How a worker ends: the two writes of a cancelled or completed run, the  *)
(* two writes of the except clause, and the finally clause.                *)
(***************************************************************************)
\* task_status[task_id]["results"] = results
WriteResultsSkip(t) ==
    /\ pc[t] \in {"cancel_results", "complete_results"}
    /\ pc' = [pc EXCEPT ![t] = IF pc[t] = "cancel_results" THEN "cancel_status"
                                ELSE "complete_status"]
    /\ UNCHANGED <<remoteVars, registryVars, inputVars, respVars, raised, walkVars, callVars, localVars, cancelVars,
                   calls, iter>>
WriteResults(t) ==
    /\ pc[t] \in {"cancel_results", "complete_results"}
    /\ stResults' = [stResults EXCEPT ![t] = results[t]]
    /\ pc' = [pc EXCEPT ![t] = IF pc[t] = "cancel_results" THEN "cancel_status"
                                ELSE "complete_status"]
    /\ UNCHANGED <<remoteVars, status, progress, error, finishedAt, inputVars, respVars, raised, walkVars, callVars,
                   localVars, cancelVars, calls, iter>>

\* task_status[task_id]["status"] = "cancelled" | "completed"
WriteStatus(t) ==
    /\ pc[t] \in {"cancel_status", "complete_status"}
    /\ status' = [status EXCEPT ![t] = IF pc[t] = "cancel_status" THEN "cancelled"
                                        ELSE "completed"]
    /\ pc' = [pc EXCEPT ![t] = "finally"]
    /\ UNCHANGED <<remoteVars, progress, stResults, error, finishedAt, inputVars, respVars, raised, walkVars, callVars,
                   localVars, cancelVars, calls, iter>>

RemotePcs == {"folder_find", "folder_create", "sheet_find", "sheet_copy",
              "member_find", "member_copy", "subfolder_list", "subfolder_create",
              "name_find", "name_copy"}

\* A remote call raises: control passes to the except clause.
RaiseKeep(t) ==
    /\ pc[t] \in RemotePcs
    /\ pc' = [pc EXCEPT ![t] = "except_status"]
    /\ raised' = raised \cup {t}
    /\ stResults' = [stResults EXCEPT ![t] = results[t]]
    /\ UNCHANGED <<remoteVars, status, progress, error, finishedAt, inputVars,
                   respVars, localVars, cancelVars, calls, iter, walkVars, callVars>>
Raise(t) ==
    /\ pc[t] \in RemotePcs
    /\ pc' = [pc EXCEPT ![t] = "except_status"]
    /\ raised' = raised \cup {t}
    /\ UNCHANGED <<remoteVars, registryVars, inputVars, respVars, localVars,
                   cancelVars, calls, iter, walkVars, callVars>>

\* except Exception as e: task_status[task_id]["status"] = "error"
ExceptStatus(t) ==
    /\ pc[t] = "except_status"
    /\ status' = [status EXCEPT ![t] = "error"]
    /\ pc' = [pc EXCEPT ![t] = "except_error"]
    /\ UNCHANGED <<remoteVars, progress, stResults, error, finishedAt, inputVars, respVars, raised, walkVars, callVars,
                   localVars, cancelVars, calls, iter>>

\* task_status[task_id]["error"] = repr(e)
ExceptErrorSkip(t) ==
    /\ pc[t] = "except_error"
    /\ pc' = [pc EXCEPT ![t] = "finally"]
    /\ UNCHANGED <<remoteVars, registryVars, inputVars, respVars, raised, walkVars, callVars,
                   localVars, cancelVars, calls, iter>>
ExceptError(t) ==
    /\ pc[t] = "except_error"
    /\ error' = [error EXCEPT ![t] = TRUE]
    /\ pc' = [pc EXCEPT ![t] = "finally"]
    /\ UNCHANGED <<remoteVars, status, progress, stResults, finishedAt, inputVars, respVars, raised, walkVars, callVars,
                   localVars, cancelVars, calls, iter>>

\* finally: task_status[task_id]["finished_at"] = now
FinallySkip(t) ==
    /\ pc[t] = "finally"
    /\ pc' = [pc EXCEPT ![t] = "done"]
    /\ UNCHANGED <<remoteVars, registryVars, inputVars, respVars, raised, walkVars, callVars,
                   localVars, cancelVars, calls, iter>>
Finally(t) ==
    /\ pc[t] = "finally"
    /\ finishedAt' = [finishedAt EXCEPT ![t] = TRUE]
    /\ pc' = [pc EXCEPT ![t] = "done"]
    /\ UNCHANGED <<remoteVars, status, progress, stResults, error, inputVars, respVars, raised, walkVars, callVars,
                   localVars, cancelVars, calls, iter>>

(***************************************************************************)
(* The cancel endpoint, which runs beside the workers: it reads the        *)
(* registry, and then sets the flag.                                       *)
(***************************************************************************)
\* evt = task_cancel.get(task_id); st = task_status.get(task_id); the 404 and
\* the answer for a terminal task.
cancel_task_read_any(t) ==
    /\ cancelPc[t] = "idle"
    /\ IF status[t] \in Terminal
       THEN cancelResp' = [cancelResp EXCEPT ![t] = status[t]] /\ UNCHANGED cancelPc
       ELSE cancelPc' = [cancelPc EXCEPT ![t] = "set"] /\ UNCHANGED cancelResp
    /\ UNCHANGED <<remoteVars, registryVars, inputVars, respVars, raised, walkVars, callVars, pc,
                   localVars, flag, cancelAt, setOn, calls, iter>>
cancel_task_read(t) ==
    /\ cancelPc[t] = "idle"
    /\ IF status[t] = "none"
       THEN cancelResp' = [cancelResp EXCEPT ![t] = "not_found"] /\ UNCHANGED cancelPc
       ELSE IF status[t] \in Terminal
       THEN cancelResp' = [cancelResp EXCEPT ![t] = status[t]] /\ UNCHANGED cancelPc
       ELSE cancelPc' = [cancelPc EXCEPT ![t] = "set"] /\ UNCHANGED cancelResp
    /\ UNCHANGED <<remoteVars, registryVars, inputVars, respVars, raised, walkVars, callVars, pc, localVars, flag,
                   cancelAt, setOn, calls, iter>>

\* evt.set(); return {"status": "cancelling"}
cancel_task_set(t) ==
    /\ cancelPc[t] = "set"
    /\ flag' = [flag EXCEPT ![t] = TRUE]
    /\ cancelResp' = [cancelResp EXCEPT ![t] = "cancelling"]
    /\ cancelPc' = [cancelPc EXCEPT ![t] = "idle"]
    /\ cancelAt' = [cancelAt EXCEPT ![t] = IF flag[t] THEN @ ELSE iter[t] + 1]
    /\ setOn' = [setOn EXCEPT ![t] = @ \cup {status[t]}]
    /\ UNCHANGED <<remoteVars, registryVars, inputVars, respVars, raised, walkVars, callVars, pc, localVars, calls, iter>>

(***************************************************************************)
(* The status endpoint, which runs beside the workers as well.             *)
(***************************************************************************)
\* The record of task t as the registry holds it.
Record(t) ==
    [code |-> "200", task_id |-> t, status |-> status[t],
     progress |-> progress[t], results |-> stResults[t],
     error |-> error[t], finished_at |-> finishedAt[t]]

\* st = task_status.get(task_id); 404 if not st; return st
get_task(t) ==
    /\ getResp' = IF status[t] = "none" THEN NotFound(t) ELSE Record(t)
    /\ UNCHANGED <<remoteVars, registryVars, inputVars, pc, localVars, cancelVars,
                   calls, iter, submitResp, raised, walkVars, callVars>>

(***************************************************************************)
(* Specifications.                                                         *)
(***************************************************************************)
Submit(t) ==
    \/ \E up \in NameUploads : generate_individuals(t, up)
    \/ \E up \in RowUploads : generate_groups(t, up)
    \/ \E up \in RowUploads, ids \in TemplateIds : generate_mixed(t, up, ids)

WorkerStep(t) ==
    \/ WorkerStart(t)
    \/ RowCheck(t)
    \/ FolderFind(t)
    \/ FolderCreate(t)
    \/ SheetFind(t)
    \/ SheetCopy(t)
    \/ MemberFind(t)
    \/ MemberCopy(t)
    \/ SubfolderList(t)
    \/ SubfolderCreate(t)
    \/ NameCheck(t)
    \/ NameFind(t)
    \/ NameCopy(t)
    \/ WriteResults(t)
    \/ WriteStatus(t)
    \/ Finally(t)

ExceptStep(t) ==
    \/ ExceptStatus(t)
    \/ ExceptError(t)

\* One task from its submission to its end: cancel requests and failing
\* remote calls interleave freely with its worker.  The other task ids are
\* never handed out, and requests naming them interleave as well.
NoneSubmitted == \A u \in Tasks : pc[u] = "none"

Next ==
    \E t \in Tasks :
        \/ NoneSubmitted /\ Submit(t)
        \/ WorkerStep(t)
        \/ Raise(t)
        \/ ExceptStep(t)
        \/ cancel_task_read(t)
        \/ cancel_task_set(t)

Spec == Init /\ [][Next]_vars


\* Runs one after another against the same root folder: a task is submitted
\* once every earlier one has ended, no cancel request arrives and no
\* remote call fails.
AllDone == \A u \in Tasks : pc[u] \in {"none", "done"}

NextSeq ==
    \E t \in Tasks :
        \/ AllDone /\ Submit(t)
        \/ WorkerStep(t)

SpecSeq == Init /\ [][NextSeq]_vars

\* One task from its submission to its end, with failing remote calls, and
\* status and cancel requests, for this id and for ids never handed out,
\* arriving at any time.  The destination folder starts empty or holding
\* all the items of earlier runs.
InitPoll == Init /\ drive \in {{}, InitialItems}

NextPoll ==
    \E t \in Tasks :
        \/ NoneSubmitted /\ Submit(t)
        \/ WorkerStep(t)
        \/ Raise(t)
        \/ ExceptStep(t)
        \/ get_task(t)
        \/ cancel_task_read(t)
        \/ cancel_task_set(t)

SpecPoll == InitPoll /\ [][NextPoll]_vars

\* One task with cancel requests and failing calls, as in Spec, from an
\* empty or a full destination folder, with the scheduling of the worker
\* threads: a worker that can take a step takes one, and a remote call under
\* way returns or raises.
ThreadStep(t) == WorkerStep(t) \/ Raise(t) \/ ExceptStep(t)

SpecLive == InitPoll /\ [][Next]_vars /\ \A t \in Tasks : WF_vars(ThreadStep(t))

\* Tasks running at the same time against one root folder, empty at the
\* start: a task is submitted, while ids are left and whether or not
\* another runs, each roster is of at
\* most MaxConcRows rows; no cancel request arrives and no call fails.
InitConc == Init /\ drive = {}

NextConc ==
    \E t \in Tasks :
        \/ /\ FreshId(t)
           /\ Submit(t)
           /\ Len(rows'[t]) <= MaxConcRows /\ Len(names'[t]) <= MaxConcRows
        \/ WorkerStep(t)

SpecConc == InitConc /\ [][NextConc]_vars

\* Tasks running at the same time as in SpecConc, with the requests beside
\* them: one status request or one cancel request, for any id, arrives at
\* any time, and one remote call may fail.
NoRequestYet ==
    /\ getResp = NoResponse
    /\ \A u \in Tasks : cancelPc[u] = "idle" /\ cancelResp[u] = "none"

NextFrame ==
    \E t \in Tasks :
        \/ /\ FreshId(t)
           /\ Submit(t)
           /\ Len(rows'[t]) <= MaxConcRows /\ Len(names'[t]) <= MaxConcRows
        \/ WorkerStep(t)
        \/ raised = {} /\ Raise(t)
        \/ ExceptStep(t)
        \/ NoRequestYet /\ get_task(t)
        \/ NoRequestYet /\ cancel_task_read(t)
        \/ cancel_task_set(t)

SpecFrame == InitConc /\ [][NextFrame]_vars

\* Tasks submitted one after the other, the submission taken statement by
\* statement; one status request or one cancel request, for any id, arrives
\* at any time, and one remote call may fail.
NextRegistry ==
    \E t \in Tasks :
        \/ /\ AllDone
           /\ SubmitFlag(t)
           /\ Len(rows'[t]) <= MaxConcRows /\ Len(names'[t]) <= MaxConcRows
        \/ StoreRecord(t)
        \/ WorkerStep(t)
        \/ raised = {} /\ Raise(t)
        \/ ExceptStep(t)
        \/ NoRequestYet /\ get_task(t)
        \/ NoRequestYet /\ cancel_task_read(t)
        \/ cancel_task_set(t)

SpecRegistry == InitConc /\ [][NextRegistry]_vars

(***************************************************************************)
(* The export of a folder tree (download_folder_as_pdfs).  Names are       *)
(* sequences of characters.  One step is one listing call, or one child    *)
(* of a listed page with the call it is routed to.                         *)
(***************************************************************************)
GOOGLE_SHEET == "application/vnd.google-apps.spreadsheet"
GOOGLE_DOC == "application/vnd.google-apps.document"
GOOGLE_SLIDE == "application/vnd.google-apps.presentation"
GOOGLE_FOLDER == "application/vnd.google-apps.folder"

\* Types a listed child may bear besides the four the walker names.
DRAWING_MT == "application/vnd.google-apps.drawing"
SHORTCUT_MT == "application/vnd.google-apps.shortcut"
IMAGE_MT == "image/png"

\* bad = '<>:"/\\|?*'
BadChars == {"<", ">", ":", "\"", "/", "\\", "|", "?", "*"}
Whitespace == {" ", "\t"}

\* "".join("_" if c in bad else c for c in name)
ReplaceBad(name) ==
    [i \in DOMAIN name |-> IF name[i] \in BadChars THEN "_" ELSE name[i]]

RECURSIVE LStrip(_, _)
LStrip(s, chars) ==
    IF s # << >> /\ Head(s) \in chars THEN LStrip(Tail(s), chars) ELSE s

RECURSIVE RStrip(_, _)
RStrip(s, chars) ==
    IF s # << >> /\ s[Len(s)] \in chars
    THEN RStrip(SubSeq(s, 1, Len(s) - 1), chars)
    ELSE s

\* _safe(name): ... .strip().rstrip(".")
Safe(name) == RStrip(RStrip(LStrip(ReplaceBad(name), Whitespace), Whitespace), {"."})

PdfExt == <<".", "p", "d", "f">>

\* The items a walked tree is made of: [id, name, mimeType, parent, target],
\* target being the item a shortcut points to: here a document that lies
\* outside the walked folder (parent NoId).
WalkItems ==
    { [id |-> 1, name |-> <<"a">>, mimeType |-> GOOGLE_FOLDER, parent |-> Root, target |-> NoId],
      [id |-> 2, name |-> <<"s", ":">>, mimeType |-> GOOGLE_SHEET, parent |-> Root, target |-> NoId],
      [id |-> 3, name |-> <<"d">>, mimeType |-> DRAWING_MT, parent |-> Root, target |-> NoId],
      [id |-> 4, name |-> <<"d", ".">>, mimeType |-> GOOGLE_DOC, parent |-> 1, target |-> NoId],
      [id |-> 5, name |-> <<"l">>, mimeType |-> SHORTCUT_MT, parent |-> 1, target |-> 10],
      [id |-> 6, name |-> <<"i", " ">>, mimeType |-> IMAGE_MT, parent |-> 1, target |-> NoId],
      [id |-> 7, name |-> <<"b">>, mimeType |-> GOOGLE_FOLDER, parent |-> 1, target |-> NoId],
      [id |-> 8, name |-> <<"s">>, mimeType |-> GOOGLE_SHEET, parent |-> 7, target |-> NoId],
      [id |-> 9, name |-> <<"p">>, mimeType |-> GOOGLE_SLIDE, parent |-> Root, target |-> NoId],
      [id |-> 10, name |-> <<"t">>, mimeType |-> GOOGLE_DOC, parent |-> NoId, target |-> NoId] }

\* The trees walked: the subsets that keep a child with its parent and a
\* shortcut with its target, and hold no other item from outside.
WalkTrees ==
    { c \in SUBSET WalkItems :
        \A f \in c :
            /\ f.parent \notin {Root, NoId} => \E g \in c : g.id = f.parent
            /\ f.target # NoId => \E g \in c : g.id = f.target
            /\ f.parent = NoId => \E g \in c : g.target = f.id }

\* skip_ids: None, or a set of ids.
SkipSets == SUBSET {1, 2, 7, 8}

\* files().list(q = "'fid' in parents and trashed=false", pageSize, pageToken):
\* the children of the folder, which the store hands out page by page in one
\* order, here that of their ids.
RECURSIVE SortById(_)
SortById(fs) ==
    IF fs = {} THEN << >>
    ELSE LET f == CHOOSE g \in fs : \A h \in fs : g.id <= h.id
         IN  <<f>> \o SortById(fs \ {f})

ChildrenOf(fid) == SortById({ f \in tree : f.parent = fid })

Min(a, b) == IF a <= b THEN a ELSE b

\* resp.get("files", []) of page p.
PageOf(fid, p) ==
    SubSeq(ChildrenOf(fid), (p - 1) * PageSize + 1,
           Min(p * PageSize, Len(ChildrenOf(fid))))

\* resp.get("nextPageToken") after page p of n children: 0 stands for none.
NextTokenNone(n, p) == 0
NextToken(n, p) == IF p * PageSize < n THEN p + 1 ELSE 0

\* One call of walk(fid, out_dir): the children of the page in hand still to
\* visit, and the page to ask for next (page_token = None asks for the first).
Frame(fid, dir) == [fid |-> fid, dir |-> dir, files |-> << >>, token |-> 1]

Top == wstack[Len(wstack)]
SetTop(fr) == [wstack EXCEPT ![Len(wstack)] = fr]
Child == Head(Top.files)
Rest == [Top EXCEPT !.files = Tail(@)]

Op(op, f) == [op |-> op, id |-> f.id, name |-> f.name, mimeType |-> f.mimeType]

\* A local file: its path below the destination directory, what it holds,
\* and (history) the remote item it was written for.
File(dir, leaf, content) ==
    [path |-> Append(dir, leaf), content |-> content, from |-> Child.id]
Dir(dir, fid) == [path |-> dir, content |-> "dir", from |-> fid]

\* open(out, "wb") replaces a file of the same path.
WriteFile(file) ==
    { g \in wfiles : g.path # file.path } \cup {file}

\* download_folder_as_pdfs(folder_id, dest_dir, skip_ids): os.makedirs(dest_dir);
\* walk(folder_id, dest_dir), which begins with os.makedirs(out_dir).
download_folder_as_pdfs ==
    /\ wpc = "idle"
    /\ wpc' = "walking"
    /\ wstack' = <<Frame(Root, << >>)>>
    /\ wfiles' = wfiles \cup {Dir(<< >>, Root)}
    /\ UNCHANGED <<taskVars, callVars, tree, skipIds, wops>>

\* resp = drive.files().list(...).execute(), with the token of the page
\* before; page_token = resp.get("nextPageToken") is kept for the end of
\* the page.
ListPage ==
    /\ wpc = "walking"
    /\ Top.files = << >> /\ Top.token # 0
    /\ wstack' = SetTop([Top EXCEPT
                           !.files = PageOf(Top.fid, Top.token),
                           !.token = NextToken(Len(ChildrenOf(Top.fid)), Top.token)])
    /\ UNCHANGED <<taskVars, callVars, tree, skipIds, wpc, wops, wfiles>>

\* if not page_token: break; walk returns to its caller.
WalkReturn ==
    /\ wpc = "walking"
    /\ Top.files = << >> /\ Top.token = 0
    /\ wstack' = SubSeq(wstack, 1, Len(wstack) - 1)
    /\ wpc' = IF Len(wstack) = 1 THEN "done" ELSE "walking"
    /\ UNCHANGED <<taskVars, callVars, tree, skipIds, wops, wfiles>>

Visiting == wpc = "walking" /\ Top.files # << >>

\* if skip_ids and f["id"] in skip_ids: continue
Skipped(f) == skipIds # {} /\ f.id \in skipIds

SkipChild ==
    /\ Visiting /\ Skipped(Child)
    /\ wstack' = SetTop(Rest)
    /\ UNCHANGED <<taskVars, callVars, tree, skipIds, wpc, wops, wfiles>>

\* if mt == GOOGLE_FOLDER: walk(fid2, os.path.join(out_dir, _safe(fname)))
WalkFolder ==
    /\ Visiting /\ ~Skipped(Child)
    /\ Child.mimeType = GOOGLE_FOLDER
    /\ LET dir == Append(Top.dir, Safe(Child.name))
       IN  /\ wstack' = Append(SetTop(Rest), Frame(Child.id, dir))
           /\ wfiles' = wfiles \cup {Dir(dir, Child.id)}
    /\ wops' = Append(wops, Op("walk", Child))
    /\ UNCHANGED <<taskVars, callVars, tree, skipIds, wpc>>

\* An exception leaves walk and download_folder_as_pdfs.
Abort ==
    /\ wpc' = "failed"
    /\ wstack' = << >>

\* What the export URL may answer: a PDF, a 200 answer that is not a PDF
\* (a sign-in page), or an error status.
SheetResponses ==
    { [ok |-> TRUE, content |-> "pdf"], [ok |-> TRUE, content |-> "html"],
      [ok |-> FALSE, content |-> "html"] }

\* elif mt == GOOGLE_SHEET: download_google_sheet_pdf(creds, fid2, fname, out_dir):
\* r = authed.get(url); r.raise_for_status(); the content is written to
\* <_safe(name)>.pdf
download_google_sheet_pdf ==
    /\ Visiting /\ ~Skipped(Child)
    /\ Child.mimeType = GOOGLE_SHEET
    /\ wops' = Append(wops, Op("sheet_pdf", Child))
    /\ \E r \in SheetResponses :
         IF r.ok
         THEN /\ wfiles' = WriteFile(File(Top.dir, Safe(Child.name) \o PdfExt, r.content))
              /\ wstack' = SetTop(Rest)
              /\ UNCHANGED wpc
         ELSE /\ Abort
              /\ UNCHANGED wfiles
    /\ UNCHANGED <<taskVars, callVars, tree, skipIds>>

\* A media download: the file is opened, then filled chunk by chunk; a
\* failing request leaves it empty.
Download(leaf, content) ==
    \E ok \in BOOLEAN :
        IF ok
        THEN /\ wfiles' = WriteFile(File(Top.dir, leaf, content))
             /\ wstack' = SetTop(Rest)
             /\ UNCHANGED wpc
        ELSE /\ wfiles' = WriteFile(File(Top.dir, leaf, "empty"))
             /\ Abort

\* elif mt in (GOOGLE_DOC, GOOGLE_SLIDE): download_drive_export_pdf(...)
download_drive_export_pdf ==
    /\ Visiting /\ ~Skipped(Child)
    /\ Child.mimeType \in {GOOGLE_DOC, GOOGLE_SLIDE}
    /\ wops' = Append(wops, Op("export_pdf", Child))
    /\ Download(Safe(Child.name) \o PdfExt, "pdf")
    /\ UNCHANGED <<taskVars, callVars, tree, skipIds>>

\* else: download_drive_binary(drive, fid2, fname, out_dir)
download_drive_binary ==
    /\ Visiting /\ ~Skipped(Child)
    /\ Child.mimeType \notin {GOOGLE_FOLDER, GOOGLE_SHEET, GOOGLE_DOC, GOOGLE_SLIDE}
    /\ wops' = Append(wops, Op("binary", Child))
    /\ Download(Safe(Child.name), "raw")
    /\ UNCHANGED <<taskVars, callVars, tree, skipIds>>

\* One export of one tree, with any set of ids to skip.
InitWalk ==
    /\ drive = {}
    /\ InitTasks
    /\ tree \in WalkTrees
    /\ skipIds \in SkipSets
    /\ wpc = "idle"
    /\ wstack = << >>
    /\ wops = << >>
    /\ wfiles = {}
    /\ InitNoCall

NextWalk ==
    \/ download_folder_as_pdfs
    \/ ListPage
    \/ WalkReturn
    \/ SkipChild
    \/ WalkFolder
    \/ download_google_sheet_pdf
    \/ download_drive_export_pdf
    \/ download_drive_binary

SpecWalk == InitWalk /\ [][NextWalk]_vars

(***************************************************************************)
(* _safe on its own: one call on any name of up to MaxName characters,     *)
(* drawn from letters, blanks, dots and forbidden characters, or on the    *)
(* name "Group: A/B?".                                                     *)
(***************************************************************************)
NameChars == {"a", " ", ".", "/", "*"}
GroupAB == <<"G", "r", "o", "u", "p", ":", " ", "A", "/", "B", "?">>
SafeArgs == SeqsUpTo(NameChars, MaxName) \cup {GroupAB}

InitSafe ==
    /\ drive = {}
    /\ InitTasks
    /\ InitNoWalk
    /\ arg \in [fn : {"_safe"}, val : SafeArgs]
    /\ ret = NoCall

call_safe ==
    /\ arg.fn = "_safe" /\ ret = NoCall
    /\ ret' = [fn |-> "_safe", val |-> Safe(arg.val)]
    /\ UNCHANGED <<taskVars, walkVars, arg>>

SpecSafe == InitSafe /\ [][call_safe]_vars

(***************************************************************************)
(* _normalize_group_label on its own: one call on a missing value, an      *)
(* integer, a float or a text of up to MaxLabel characters.  A float is    *)
(* held as a whole number of units of 1/Scale.                             *)
(***************************************************************************)
Digits == <<"0", "1", "2", "3", "4", "5", "6", "7", "8", "9">>
IsDigit(c) == \E i \in DOMAIN Digits : Digits[i] = c
DigitVal(c) == (CHOOSE i \in DOMAIN Digits : Digits[i] = c) - 1

RECURSIVE Pow10(_)
Pow10(n) == IF n = 0 THEN 1 ELSE 10 * Pow10(n - 1)
Scale == Pow10(MaxLabel)

\* str(n) of an integer n >= 0.
RECURSIVE IntStr(_)
IntStr(n) ==
    IF n < 10 THEN <<Digits[n + 1]>>
    ELSE IntStr(n \div 10) \o <<Digits[(n % 10) + 1]>>

\* The w digits of n, zeros in front.
RECURSIVE Pad(_, _)
Pad(n, w) ==
    IF w = 0 THEN << >> ELSE Pad(n \div 10, w - 1) \o <<Digits[(n % 10) + 1]>>

\* str(val) of a float: the shortest digits, one at least after the point.
FloatStr(v) ==
    LET f == RStrip(Pad(v % Scale, MaxLabel), {"0"})
    IN  IntStr(v \div Scale) \o <<".">> \o (IF f = << >> THEN <<"0">> ELSE f)

\* val.is_integer()
IsInteger(v) == v % Scale = 0

\* str.strip()
Strip(s) == RStrip(LStrip(s, Whitespace), Whitespace)

PointsOf(s) == { i \in DOMAIN s : s[i] = "." }

\* float(s) does not raise: digits with at most one point among them.
IsNumeral(s) ==
    /\ \A i \in DOMAIN s : IsDigit(s[i]) \/ s[i] = "."
    /\ Cardinality(PointsOf(s)) <= 1
    /\ \E i \in DOMAIN s : IsDigit(s[i])

RECURSIVE DigitsVal(_)
DigitsVal(ds) ==
    IF ds = << >> THEN 0
    ELSE 10 * DigitsVal(SubSeq(ds, 1, Len(ds) - 1)) + DigitVal(ds[Len(ds)])

\* float(s), in units of 1/Scale.
FloatOf(s) ==
    LET p == IF PointsOf(s) = {} THEN Len(s) + 1 ELSE CHOOSE i \in PointsOf(s) : TRUE
        whole == SubSeq(s, 1, p - 1)
        frac == SubSeq(s, p + 1, Len(s))
    IN  DigitsVal(whole) * Scale + DigitsVal(frac) * Pow10(MaxLabel - Len(frac))

normalize_group_label(val) ==
    CASE val.kind = "nan" -> << >>
      [] val.kind = "int" -> IntStr(val.num)
      [] val.kind = "float" ->
            IF IsInteger(val.num) THEN IntStr(val.num \div Scale)
            ELSE RStrip(RStrip(FloatStr(val.num), {"0"}), {"."})
      [] OTHER ->
            LET t == Strip(val.text)
            IN  IF IsNumeral(t) /\ IsInteger(FloatOf(t))
                THEN IntStr(FloatOf(t) \div Scale)
                ELSE t

\* The labels a roster cell may hold.
LabelChars == {"0", "3", "5", ".", "A", " "}
LabelArgs ==
    {[kind |-> "nan", num |-> 0, text |-> << >>]}
    \cup [kind : {"int"}, num : 0 .. 11, text : {<< >>}]
    \cup [kind : {"float"}, num : { (k * Scale) \div 4 : k \in 0 .. 41 }, text : {<< >>}]
    \cup [kind : {"str"}, num : {0}, text : SeqsUpTo(LabelChars, MaxLabel)]

InitLabel ==
    /\ drive = {}
    /\ InitTasks
    /\ InitNoWalk
    /\ arg \in [fn : {"_normalize_group_label"}, val : LabelArgs]
    /\ ret = NoCall

call_normalize_group_label ==
    /\ arg.fn = "_normalize_group_label" /\ ret = NoCall
    /\ ret' = [fn |-> "_normalize_group_label", val |-> normalize_group_label(arg.val)]
    /\ UNCHANGED <<taskVars, walkVars, arg>>

SpecLabel == InitLabel /\ [][call_normalize_group_label]_vars

(***************************************************************************)
(* The groups worker and the mixed worker on one roster from one folder    *)
(* state: task 1 is a groups task and runs to its end; the folder is put   *)
(* back to what it held before (the workers delete nothing, so that is     *)
(* the items older than the run), and task 2 is a mixed task of the same   *)
(* roster.  No cancel request arrives and no call fails.                   *)
(***************************************************************************)
TwinRowSet == RowSet \cup { <<"2", <<"B", "A">>>> }
TwinUploads == [csv : {TRUE}, parse : {"ok"}, rows : SeqsUpTo(TwinRowSet, MaxRows)]

Restore ==
    /\ pc[1] = "done" /\ pc[2] = "none"
    /\ drive' = { f \in drive : f.id < FirstFreeId }
    /\ nextId' = FirstFreeId
    /\ UNCHANGED <<registryVars, inputVars, respVars, raised, walkVars, callVars,
                   pc, localVars, cancelVars, calls, iter>>

NextTwin ==
    \/ \E up \in TwinUploads : NoneSubmitted /\ generate_groups(1, up)
    \/ Restore
    \/ \E up \in TwinUploads, ids \in TemplateIds :
          /\ pc[1] = "done" /\ nextId = FirstFreeId
          /\ up.rows = rows[1]
          /\ generate_mixed(2, up, ids)
    \/ \E t \in Tasks : WorkerStep(t)

SpecTwin == Init /\ [][NextTwin]_vars

(***************************************************************************)
(* Properties of successive runs (SpecSeq).                                *)
(***************************************************************************)
ExistingKinds == {"group_sheet_existing", "indiv_group_sheet_existing",
                  "solo_sheet_existing"}
GroupSheetKinds == {"group_sheet", "group_sheet_existing",
                    "indiv_group_sheet", "indiv_group_sheet_existing"}
SoloSheetKinds == {"solo_sheet", "solo_sheet_existing"}

\* Task b is the same batch worker on the same roster as task a, run right
\* after it, and both ran to completion.
Rerun(a, b) ==
    /\ b = a + 1
    /\ kind[a] # "none" /\ kind[b] = kind[a]
    /\ rows[b] = rows[a] /\ names[b] = names[a]
    /\ pc[a] = "done" /\ status[a] = "completed"
    /\ pc[b] = "done" /\ status[b] = "completed"

\* The link of the folder the sheet of record i was looked up in, read off
\* the result list: the latest folder record for a group's sheets; the
\* folder field (individuals worker) or the individuals_folder record
\* (mixed worker) for a solo sheet.
RECURSIVE LastLink(_, _, _)
LastLink(res, i, type) ==
    IF i = 0 THEN NoId
    ELSE IF res[i].type = type THEN res[i].link
    ELSE LastLink(res, i - 1, type)

ParentLink(t, res, i) ==
    IF res[i].type \in GroupSheetKinds THEN LastLink(res, i, "folder")
    ELSE IF kind[t] = "individuals" THEN res[i].folder
    ELSE LastLink(res, i, "individuals_folder")

\* C1: when the same batch worker is run to completion twice in sequence
\* against the same root folder, the second run issues no create-folder call
\* and no copy call.
C1_SecondRunCreatesNothing ==
    \A a \in Tasks, b \in Tasks : Rerun(a, b) => calls[b] = << >>

C3_NeverCreatesExistingName ==
    \A t \in Tasks : \A i \in DOMAIN calls[t] : ~calls[t][i].dup

(***************************************************************************)
(* Properties of cancellation (Spec).                                      *)
(***************************************************************************)
\* The rows the group loop checks the flag for, and the number of checked
\* iterations of a whole run: group rows first, then names.
CheckedRows(t) ==
    CASE kind[t] = "groups" -> rows[t]
      [] kind[t] = "mixed" -> GroupsRows(rows[t])
      [] OTHER -> << >>
NumIterations(t) == Len(CheckedRows(t)) + Len(names[t])

\* What a result record is about, whichever of its two kinds it has.
Shape(r) ==
    CASE r.type = "folder" -> [type |-> "folder", group |-> r.group]
      [] r.type \in {"group_sheet", "group_sheet_existing"} ->
            [type |-> "group_sheet", group |-> r.group]
      [] r.type \in {"indiv_group_sheet", "indiv_group_sheet_existing"} ->
            [type |-> "indiv_group_sheet", group |-> r.group, member |-> r.member]
      [] r.type \in SoloSheetKinds -> [type |-> "solo_sheet", member |-> r.member]
      [] OTHER -> [type |-> r.type]
Shapes(res) == [i \in DOMAIN res |-> Shape(res[i])]

\* The records one group row produces, and those of the first n rows.
RowShapes(row) ==
    << [type |-> "folder", group |-> Label(row)],
       [type |-> "group_sheet", group |-> Label(row)] >>
    \o [i \in 1..Len(Members(row)) |->
          [type |-> "indiv_group_sheet", group |-> Label(row),
           member |-> Members(row)[i]]]
RECURSIVE RowsShapes(_, _)
RowsShapes(rs, n) ==
    IF n = 0 THEN << >> ELSE RowsShapes(rs, n - 1) \o RowShapes(rs[n])
NamesShapes(ns, n) == [i \in 1..n |-> [type |-> "solo_sheet", member |-> ns[i]]]

\* The records of iterations 1..n of task t, in order.
IterationShapes(t, n) ==
    LET g == IF n <= Len(CheckedRows(t)) THEN n ELSE Len(CheckedRows(t))
    IN  RowsShapes(CheckedRows(t), g) \o NamesShapes(names[t], n - g)

\* The same, with the individuals_folder record the mixed worker publishes
\* between its group rows and its names once it has reached the names.
IterationShapesWithFolder(t, n) ==
    LET g == IF n <= Len(CheckedRows(t)) THEN n ELSE Len(CheckedRows(t))
    IN  RowsShapes(CheckedRows(t), g)
        \o (IF kind[t] = "mixed" /\ n >= Len(CheckedRows(t))
            THEN << [type |-> "individuals_folder"] >> ELSE << >>)
        \o NamesShapes(names[t], n - g)

\* C4: with the flag set before the worker reaches the check of iteration N,
\* the worker issues no create-folder and no copy call for iteration N or a
\* later one.
C4_NoMutationFromCancelledIteration ==
    \A t \in Tasks :
        cancelAt[t] > 0 =>
            \A i \in DOMAIN calls[t] : calls[t][i].unit < cancelAt[t]

\* A task cancelled before its second iteration, after the mutations of the
\* first, that has ended.
C4_Witness ==
    \E t \in Tasks :
        /\ cancelAt[t] = 2 /\ NumIterations(t) >= 2
        /\ pc[t] = "done" /\ status[t] = "cancelled"
        /\ \E i \in DOMAIN calls[t] : calls[t][i].unit = 1

\* C5, as stated: once the flag is set the worker issues no remote mutation
\* other than those of the unit in flight when it was set.
C5_OnlyInFlightUnitAfterFlag ==
    \A t \in Tasks : \A i \in DOMAIN calls[t] :
        calls[t][i].flagged =>
            calls[t][i].unit >= 1 /\ calls[t][i].unit = cancelAt[t] - 1

\* C5, amended: once the flag is set the worker issues no remote mutation
\* other than those of the unit in flight when it was set and at most one
\* creation of the "Individuals" subfolder.
C5_OnlyInFlightUnitOrSubfolderAfterFlag ==
    \A t \in Tasks :
        /\ \A i \in DOMAIN calls[t] :
             calls[t][i].flagged =>
                \/ calls[t][i].unit >= 1 /\ calls[t][i].unit = cancelAt[t] - 1
                \/ /\ calls[t][i].unit = 0
                   /\ calls[t][i].op = "create_folder"
                   /\ calls[t][i].name = IndividualsName
                   /\ calls[t][i].parent = Root
        /\ Cardinality({ i \in DOMAIN calls[t] : calls[t][i].unit = 0 }) <= 1

\* A mixed task cancelled during its last group row that went on to create
\* the "Individuals" subfolder and then ended cancelled.
C5_Witness ==
    \E t \in Tasks :
        /\ kind[t] = "mixed" /\ status[t] = "cancelled"
        /\ cancelAt[t] = Len(CheckedRows(t)) + 1 /\ cancelAt[t] > 1
        /\ \E i \in DOMAIN calls[t] :
             /\ calls[t][i].flagged /\ calls[t][i].unit = 0
        /\ \E i \in DOMAIN calls[t] :
             /\ calls[t][i].flagged /\ calls[t][i].unit = cancelAt[t] - 1

\* C6, as stated: with the flag set before the check of iteration N, N at
\* most the number of iterations, the task ends cancelled and its results
\* are exactly the records of iterations 1..N-1, in order.  (Read with the
\* benefit of the doubt: of the runs in which no remote call raised.)
C6_CancelledWithIterationRecords ==
    \A t \in Tasks :
        (pc[t] = "done" /\ status[t] # "error"
           /\ cancelAt[t] \in 1..NumIterations(t)) =>
            /\ status[t] = "cancelled"
            /\ Shapes(stResults[t]) = IterationShapes(t, cancelAt[t] - 1)

\* C6, amended: with the flag set before the check of iteration N, N at most
\* the number of iterations, the task ends cancelled unless a remote call
\* raised first, which ends it in error; the results of a task ended
\* cancelled are the records of iterations 1..N-1, in order, with the
\* individuals_folder record of the mixed worker between those of the group
\* rows and those of the names when iteration N is a name.
C6_CancelledOrErrorWithRecords ==
    \A t \in Tasks :
        (pc[t] = "done" /\ cancelAt[t] \in 1..NumIterations(t)) =>
            /\ status[t] \in {"cancelled", "error"}
            /\ status[t] = "error" => error[t]
            /\ status[t] = "cancelled" =>
                 Shapes(stResults[t]) = IterationShapesWithFolder(t, cancelAt[t] - 1)

\* A mixed task of one group row and one name, cancelled before the name:
\* it ended cancelled with the four records of the row and the
\* individuals_folder record.
C6_Witness ==
    \E t \in Tasks :
        /\ pc[t] = "done" /\ status[t] = "cancelled" /\ kind[t] = "mixed"
        /\ Len(CheckedRows(t)) = 1 /\ Len(names[t]) = 1
        /\ cancelAt[t] = 2
        /\ Len(stResults[t]) = 5

\* C7: a task whose cancel request was accepted while it was queued or
\* running ends cancelled, if no remote call raised.
C7_AcceptedCancelEndsCancelled ==
    \A t \in Tasks :
        (pc[t] = "done" /\ status[t] # "error"
           /\ setOn[t] \cap {"queued", "running"} # {}) =>
            status[t] = "cancelled"

\* C8: the flag is never set on a task whose status is completed, cancelled
\* or error, so cancel answers "cancelling" only for a task that is not
\* terminal when the flag is set.
C8_FlagNeverSetOnTerminalTask ==
    \A t \in Tasks : setOn[t] \cap Terminal = {}

(***************************************************************************)
(* Properties of the progress record (Spec).                               *)
(***************************************************************************)
\* p is x = current * 100 / max(1, total) rounded to two decimals, in
\* hundredths: the integer nearest to 100 x, the even one of two equally near.
IsRoundedPercent(p, current, total) ==
    LET d == Max(1, total)
        e == p * d - current * 10000
    IN  /\ 2 * e <= d /\ 2 * e >= -d
        /\ (2 * e = d \/ 2 * e = -d) => p % 2 = 0

\* C9: the progress record of every task satisfies 0 <= current <= total.
C9_CurrentWithinTotal ==
    \A t \in Tasks :
        /\ 0 <= progress[t].current
        /\ progress[t].current <= progress[t].total

\* A groups task whose last progress update brought current up to a total
\* of more than one row.
C9_Witness ==
    \E t \in Tasks :
        /\ kind[t] = "groups" /\ Len(rows[t]) = 2
        /\ progress[t].current = progress[t].total
        /\ progress[t].total = RowOps(rows[t])

\* C10: the percent of every task's progress record, the initial one and
\* that of a task with total 0 included, is
\* round(current * 100 / max(1, total), 2).
C10_PercentIsRounded ==
    \A t \in Tasks :
        status[t] # "none" =>
            IsRoundedPercent(progress[t].percent, progress[t].current,
                             progress[t].total)

\* A progress record of two units out of three, 66.67 percent, which
\* rounding up reaches; and a registered task with total 0.
C10_Witness ==
    \E t \in Tasks :
        /\ progress[t].current = 2 /\ progress[t].total = 3
        /\ progress[t].percent = 6667

(***************************************************************************)
(* Properties of the status record (Spec, SpecSeq, SpecPoll).              *)
(***************************************************************************)
\* C11: once a task's status is completed, cancelled or error, no field of
\* its status record (status, progress with last and updated_at, results,
\* error, finished_at) is written again.
C11_TerminalRecordNeverWritten ==
    [][\A t \in Tasks :
         status[t] \in Terminal =>
            /\ status'[t] = status[t]
            /\ progress'[t] = progress[t]
            /\ stResults'[t] = stResults[t]
            /\ error'[t] = error[t]
            /\ finishedAt'[t] = finishedAt[t]]_vars

\* The work units of a roster, counted from its rows: a folder, a group
\* sheet and one sheet per member for a group row, one sheet for a name.
MemberSlots(rs, I) ==
    UNION { { <<i, j>> : j \in DOMAIN Members(rs[i]) } : i \in I }
GroupIndices(rs) == { i \in DOMAIN rs : Len(Members(rs[i])) > 1 }
SoloIndices(rs) == { i \in DOMAIN rs : Len(Members(rs[i])) = 1 }
WorkUnits(k, rs, ns) ==
    CASE k = "individuals" -> Cardinality(DOMAIN ns)
      [] k = "groups" ->
            2 * Cardinality(DOMAIN rs) + Cardinality(MemberSlots(rs, DOMAIN rs))
      [] OTHER ->
            2 * Cardinality(GroupIndices(rs))
            + Cardinality(MemberSlots(rs, GroupIndices(rs)))
            + Cardinality(SoloIndices(rs))

\* C12: every accepted submission allocates a task id that no entry of the
\* registry has, and stores for it, before the worker runs, a record with
\* status queued, progress {current 0, total = the work units of the roster,
\* percent 0.0}, an empty results list and a fresh, unset flag; the entries
\* of the other ids stay as they are.
C12_SubmissionStoresQueuedRecord ==
    [][\A t \in Tasks :
         (\/ status[t] = "none" /\ status'[t] # "none"
          \/ submitResp' # submitResp /\ submitResp' = Accepted(t)) =>
            /\ status[t] = "none" /\ pc[t] = "none"
            /\ submitResp' = Accepted(t)
            /\ status'[t] = "queued"
            /\ progress'[t] =
                 [current |-> 0,
                  total |-> WorkUnits(kind'[t], rows'[t], names'[t]),
                  percent |-> 0]
            /\ stResults'[t] = << >>
            /\ ~flag'[t] /\ setOn'[t] = {}
            /\ pc'[t] = "queued"
            /\ ~error'[t] /\ ~finishedAt'[t]
            /\ \A u \in Tasks \ {t} :
                 /\ Record(u)' = Record(u)
                 /\ flag'[u] = flag[u]
                 /\ pc'[u] = pc[u]]_vars

\* A second task, of a mixed roster of five work units, just submitted
\* while the record of the first, which has ended, is in the registry.
C12_Witness ==
    /\ submitResp = Accepted(2)
    /\ status[1] \in Terminal
    /\ status[2] = "queued" /\ pc[2] = "queued"
    /\ kind[2] = "mixed" /\ progress[2].total = 5

\* C13: a status request and a cancel request for a task id that no
\* submission returned are answered NotFound, set no flag and leave the
\* status map and the flag map as they are.
C13_UnknownIdReportsNotFound ==
    [][\A t \in Tasks :
         status[t] = "none" =>
            /\ cancelPc'[t] = "idle"
            /\ ~flag[t] /\ ~flag'[t]
            /\ cancelResp'[t] \in {cancelResp[t], "not_found"}
            /\ (getResp' # getResp /\ getResp'.task_id = t) => getResp' = NotFound(t)
            /\ (\/ cancelResp'[t] # cancelResp[t]
                \/ getResp' # getResp /\ getResp'.task_id = t) =>
                 UNCHANGED <<registryVars, flag, pc>>]_vars

\* Both requests answered NotFound for the id that was never handed out,
\* while the task that was submitted is running.
C13_Witness ==
    /\ status[2] = "none" /\ status[1] = "running"
    /\ cancelResp[2] = "not_found"
    /\ getResp = NotFound(2)

\* C14: a submission answered with the 400 of an input error adds no entry
\* to the registry, creates no flag, schedules no worker and issues no
\* remote call.
C14_RejectedSubmissionChangesNothing ==
    [][(submitResp' = BadRequest /\ submitResp' # submitResp) =>
          UNCHANGED <<registryVars, flag, kind, rows, names, pc, drive, nextId,
                      calls>>]_vars

\* A submission rejected after an earlier task has run to its end: the
\* registry holds that task alone.
C14_Witness ==
    /\ submitResp = BadRequest
    /\ pc[1] = "done" /\ calls[1] # << >>
    /\ status[2] = "none" /\ pc[2] = "none"

\* C15: a task in whose worker a call raised ends with status error, a
\* description in its error field and finished_at recorded, and keeps its
\* entry in the registry.
C15_RaiseEndsInError ==
    \A t \in raised :
        pc[t] = "done" =>
            /\ status[t] = "error"
            /\ error[t]
            /\ finishedAt[t]
            /\ Record(t).status = "error"

\* A task that had reported progress and whose flag was set when a remote
\* call raised, at its end.
C15_Witness ==
    \E t \in raised :
        /\ pc[t] = "done" /\ status[t] = "error"
        /\ progress[t].current >= 1 /\ flag[t]

\* C16: no answer of the status endpoint shows a torn progress object
\* (current, total and percent are those of one update), and none shows a
\* terminal status in a record that still lacks finished_at or, for error,
\* the error description.
C16_SnapshotConsistent ==
    getResp.code = "200" /\ "status" \in DOMAIN getResp =>
        /\ IsRoundedPercent(getResp.progress.percent, getResp.progress.current,
                            getResp.progress.total)
        /\ getResp.progress.total =
             WorkUnits(kind[getResp.task_id], rows[getResp.task_id],
                       names[getResp.task_id])
        /\ getResp.status \in Terminal => getResp.finished_at
        /\ getResp.status = "error" => getResp.error

\* C17: the total of a task's progress record is the same from submission
\* to termination: the value stored at submission and the value of every
\* update of the worker are the work units of the submitted roster, which
\* for the groups worker is the sum over all rows of 1 folder, 1 group
\* sheet and the number of members.
C17_TotalNeverChanges ==
    \A t \in Tasks :
        status[t] # "none" =>
            progress[t].total = WorkUnits(kind[t], rows[t], names[t])

\* A groups task of a two-member row and a one-member row, seven work
\* units, after its worker's third progress update.
C17_Witness ==
    \E t \in Tasks :
        /\ kind[t] = "groups" /\ status[t] = "running"
        /\ Len(rows[t]) = 2 /\ Len(Members(rows[t][1])) # Len(Members(rows[t][2]))
        /\ progress[t].current = 3 /\ progress[t].total = 7

\* The k-th smallest element of a set of indices.
Nth(S, k) == CHOOSE i \in S : Cardinality({ j \in S : j < i }) = k - 1

\* C18: in the mixed flow every roster row is either a group row (more than
\* one member) or a solo row (one member), never both; the group rows are
\* the former in roster order, the solo names the single members of the
\* latter in roster order; and the total is the sum over the group rows of
\* 1 + 1 + number of members, plus the number of solo names.
C18_MixedPartition ==
    \A t \in Tasks :
        kind[t] = "mixed" =>
            LET rs == rows[t]
                G == GroupIndices(rs)
                S == SoloIndices(rs)
            IN  /\ G \cup S = DOMAIN rs /\ G \cap S = {}
                /\ Len(GroupsRows(rs)) = Cardinality(G)
                /\ \A k \in 1..Cardinality(G) : GroupsRows(rs)[k] = rs[Nth(G, k)]
                /\ Len(names[t]) = Cardinality(S)
                /\ \A k \in 1..Cardinality(S) :
                     names[t][k] = Members(rs[Nth(S, k)])[1]
                /\ progress[t].total =
                     2 * Cardinality(G) + Cardinality(MemberSlots(rs, G))
                     + Cardinality(S)

\* The mixed task of rows ("1", [A, B]) and ("2", [A]): one group row, one
\* solo name, five work units, run to completion with five sheets and
\* folders recorded besides the individuals_folder record.
C18_Witness ==
    \E t \in Tasks :
        /\ kind[t] = "mixed" /\ status[t] = "completed"
        /\ rows[t] = << <<"1", <<"A", "B">>>>, <<"2", <<"A">>>> >>
        /\ names[t] = <<"A">>
        /\ progress[t].total = 5 /\ progress[t].current = 5
        /\ Len(stResults[t]) = 6

\* C19: a group row is not interrupted by cancellation: in the results of
\* every task that ended cancelled, the k-th folder record is that of the
\* k-th group row and is followed by the row's group-sheet record and by
\* one member record for each member of the row, in order.
C19_CancelledRowsWhole ==
    \A t \in Tasks :
        status[t] = "cancelled" =>
            LET res == stResults[t]
                F == { i \in DOMAIN res : res[i].type = "folder" }
            IN  \A i \in F :
                  LET row == CheckedRows(t)[Cardinality({ j \in F : j <= i })]
                      n == Len(Members(row))
                  IN  /\ res[i].group = Label(row)
                      /\ Len(res) >= i + 1 + n
                      /\ res[i + 1].type \in {"group_sheet", "group_sheet_existing"}
                      /\ res[i + 1].group = Label(row)
                      /\ \A j \in 1..n :
                           /\ res[i + 1 + j].type \in
                                {"indiv_group_sheet", "indiv_group_sheet_existing"}
                           /\ res[i + 1 + j].group = Label(row)
                           /\ res[i + 1 + j].member = Members(row)[j]

\* A task of two group rows whose flag was set while the first row was
\* being processed: the worker still made a copy for that row with the flag
\* set, and ended cancelled with the row's four records.
C19_Witness ==
    \E t \in Tasks :
        /\ status[t] = "cancelled" /\ Len(CheckedRows(t)) = 2
        /\ cancelAt[t] = 2
        /\ \E i \in DOMAIN calls[t] :
             calls[t][i].flagged /\ calls[t][i].unit = 1 /\ calls[t][i].op = "copy"
        /\ Len(stResults[t]) = 2 + Len(Members(CheckedRows(t)[1]))
        /\ Len(Members(CheckedRows(t)[1])) = 2

\* C20: in every flow that takes a Group/Members roster, the groups flow
\* included, a row of exactly one member is processed as a solo entry: the
\* completed task records a solo sheet for the member, and no folder and no
\* group sheet for the row's label (a label no group row of the roster
\* bears).
C20_OneMemberRowIsSolo ==
    \A t \in Tasks :
        (kind[t] \in {"groups", "mixed"} /\ status[t] = "completed") =>
            \A i \in SoloIndices(rows[t]) :
                LET row == rows[t][i]
                    res == stResults[t]
                IN  /\ \E j \in DOMAIN res :
                         /\ res[j].type \in SoloSheetKinds
                         /\ res[j].member = Members(row)[1]
                    /\ (\A g \in GroupIndices(rows[t]) :
                            Label(rows[t][g]) # Label(row)) =>
                         \A j \in DOMAIN res :
                            res[j].type \in {"folder", "group_sheet",
                                             "group_sheet_existing"}
                               => res[j].group # Label(row)

(***************************************************************************)
(* Properties of the sheet units and of the result list (Spec).            *)
(***************************************************************************)
FindPcs == {"sheet_find", "member_find", "name_find"}
CopyPcs == {"sheet_copy", "member_copy", "name_copy"}
CopyPcOf(p) ==
    CASE p = "sheet_find" -> "sheet_copy"
      [] p = "member_find" -> "member_copy"
      [] OTHER -> "name_copy"
BaseKindAt(p) ==
    CASE p \in {"sheet_find", "sheet_copy"} -> "group_sheet"
      [] p \in {"member_find", "member_copy"} -> "indiv_group_sheet"
      [] OTHER -> "solo_sheet"
\* The folder and the target name of the sheet unit task t is at.
UnitParent(t) == IF pc[t] \in {"name_find", "name_copy"} THEN indiv[t] ELSE folder[t]
UnitTarget(t) ==
    CASE pc[t] \in {"sheet_find", "sheet_copy"} -> GroupSheetName(CurLabel(t))
      [] pc[t] \in {"member_find", "member_copy"} -> ContributionName(CurMember(t))
      [] OTHER -> FeedbackName(CurName(t))
Last(seq) == seq[Len(seq)]

\* C21: for every sheet unit of the three workers, a lookup that returns
\* (it does not raise) goes on to the copy call exactly when the parent
\* folder holds no child of the target name, and otherwise records the
\* *_existing kind with the link of a child it found, issuing no call; a
\* copy call that returns adds one sheet of the target name to the parent
\* and records the base kind with the link of that sheet; and a copy call
\* is issued nowhere else.
C21_CopyIffLookupEmpty ==
    [][\A t \in Tasks :
         LET found == { f \in drive : f.parent = UnitParent(t)
                                       /\ f.name = UnitTarget(t) }
         IN  /\ (pc[t] \in FindPcs /\ pc'[t] \notin {pc[t], "except_status"}) =>
                  /\ calls'[t] = calls[t] /\ drive' = drive
                  /\ IF found = {}
                     THEN pc'[t] = CopyPcOf(pc[t]) /\ results'[t] = results[t]
                     ELSE /\ pc'[t] \notin CopyPcs
                          /\ Len(results'[t]) = Len(results[t]) + 1
                          /\ SubSeq(results'[t], 1, Len(results[t])) = results[t]
                          /\ Last(results'[t]).type = BaseKindAt(pc[t]) \o "_existing"
                          /\ Last(results'[t]).link \in { f.id : f \in found }
             /\ (pc[t] \in CopyPcs /\ pc'[t] \notin {pc[t], "except_status"}) =>
                  /\ \E new \in drive' \ drive :
                       /\ drive' = drive \cup {new}
                       /\ new.name = UnitTarget(t) /\ new.parent = UnitParent(t)
                       /\ new.mimeType = SHEET_MT
                       /\ Last(results'[t]).link = new.id
                  /\ Len(results'[t]) = Len(results[t]) + 1
                  /\ Last(results'[t]).type = BaseKindAt(pc[t])
                  /\ Len(calls'[t]) = Len(calls[t]) + 1
                  /\ Last(calls'[t]).op = "copy"
             /\ (pc'[t] \in CopyPcs /\ pc'[t] # pc[t]) =>
                  pc[t] \in FindPcs /\ found = {}
             /\ (calls'[t] # calls[t] /\ Last(calls'[t]).op = "copy") =>
                  pc[t] \in CopyPcs]_vars

\* A task that has recorded a group sheet and a contribution sheet it
\* copied and a solo sheet it found.
C21_Witness ==
    \E t \in Tasks :
        /\ \E i \in DOMAIN results[t] : results[t][i].type = "indiv_group_sheet"
        /\ \E i \in DOMAIN results[t] : results[t][i].type = "group_sheet"
        /\ \E i \in DOMAIN results[t] : results[t][i].type = "solo_sheet_existing"
        /\ \E i \in DOMAIN calls[t] : calls[t][i].op = "copy"

IsPrefix(a, b) == Len(a) <= Len(b) /\ SubSeq(b, 1, Len(a)) = a

\* The records of a whole run, in roster order: for each group row its
\* folder, its group sheet and its members as listed; then, in the mixed
\* worker with solo names, the individuals_folder record; then the names.
ExpectedShapes(t) ==
    RowsShapes(CheckedRows(t), Len(CheckedRows(t)))
    \o (IF kind[t] = "mixed" /\ names[t] # << >>
        THEN << [type |-> "individuals_folder"] >> ELSE << >>)
    \o NamesShapes(names[t], Len(names[t]))

\* C23: the result records of a task are in roster order: the list the
\* worker builds is at every moment a prefix of the records of the whole
\* roster in order, the published list as well, and the list of a completed
\* task is the whole of it.
C23_ResultsInRosterOrder ==
    \A t \in Tasks :
        /\ IsPrefix(Shapes(results[t]), ExpectedShapes(t))
        /\ IsPrefix(Shapes(stResults[t]), ExpectedShapes(t))
        /\ status[t] = "completed" => Shapes(stResults[t]) = ExpectedShapes(t)

\* A completed groups task whose roster lists group "2" before group "1",
\* and a completed individuals task whose roster lists B before A.
C23_Witness ==
    \E t \in Tasks :
        /\ status[t] = "completed"
        /\ \/ /\ kind[t] = "groups"
              /\ rows[t] = << <<"2", <<"A">>>>, <<"1", <<"A", "B">>>> >>
              /\ Len(stResults[t]) = 7
           \/ /\ kind[t] = "individuals"
              /\ names[t] = <<"B", "A">>
              /\ stResults[t][1].member = "B" /\ stResults[t][2].member = "A"

SubfolderPcs == {"subfolder_list", "subfolder_create"}
NamePcs == {"name_check", "name_find", "name_copy"}
\* The number of records the group rows of task t produce in all.
GroupRecords(t) == Len(RowsShapes(CheckedRows(t), Len(CheckedRows(t))))

\* C24: in the mixed worker, a solo entry is processed only once the
\* records of all group rows are there; the "Individuals" subfolder is
\* looked up or created only for a roster with a solo name and only after
\* the group rows, every worker that reaches the solo phase has looked it
\* up, and the lookup is begun once per task; it is created at most once,
\* and the results hold at most one individuals_folder record.
C24_SoloPhaseAfterGroups ==
    [][\A t \in Tasks :
         kind'[t] = "mixed" =>
            LET res == results'[t]
                IF_ == { i \in DOMAIN res : res[i].type = "individuals_folder" }
            IN  /\ Cardinality(IF_) <= 1
                /\ Cardinality({ i \in DOMAIN calls'[t] : calls'[t][i].unit = 0 }) <= 1
                /\ \A i \in DOMAIN res :
                     res[i].type \in SoloSheetKinds \cup {"individuals_folder"}
                        => i > GroupRecords(t)'
                /\ (pc'[t] \in SubfolderPcs \cup NamePcs \/ indiv'[t] # NoId) =>
                     /\ names'[t] # << >>
                     /\ Len(res) >= GroupRecords(t)'
                /\ pc'[t] \in NamePcs => indiv'[t] # NoId /\ Cardinality(IF_) = 1
                /\ (status'[t] = "completed" /\ names'[t] # << >>) =>
                     indiv'[t] # NoId /\ Cardinality(IF_) = 1
                /\ (pc'[t] = "subfolder_list" /\ pc[t] # "subfolder_list") =>
                     /\ indiv[t] = NoId
                     /\ pc[t] \notin SubfolderPcs \cup NamePcs
                     /\ \A i \in DOMAIN results[t] :
                          results[t][i].type # "individuals_folder"
                /\ indiv[t] # NoId => pc'[t] \notin SubfolderPcs]_vars

\* A mixed task of a group row and a solo name that created the
\* "Individuals" subfolder after the group row and ran to completion.
C24_Witness ==
    \E t \in Tasks :
        /\ kind[t] = "mixed" /\ status[t] = "completed"
        /\ CheckedRows(t) # << >> /\ names[t] # << >>
        /\ \E i \in DOMAIN calls[t] : calls[t][i].unit = 0
        /\ stResults[t][GroupRecords(t) + 1].type = "individuals_folder"

\* C26: from the submission of a task on, no step lowers progress.current,
\* and a step that writes the progress raises current by exactly one, in
\* the step that adds the one result record of the finished work unit.
C26_ProgressRisesByOne ==
    [][\A t \in Tasks :
         status[t] # "none" =>
            /\ progress'[t].current >= progress[t].current
            /\ progress'[t] # progress[t] =>
                 /\ progress'[t].current = progress[t].current + 1
                 /\ Len(results'[t]) = Len(results[t]) + 1]_vars

\* A completed task whose counter went up, one by one, to three or more.
C26_Witness ==
    \E t \in Tasks :
        /\ status[t] = "completed"
        /\ progress[t].current >= 3
        /\ progress[t].current = progress[t].total

(***************************************************************************)
(* Properties of tasks that run at the same time (SpecConc).               *)
(***************************************************************************)
\* C22: with two tasks running at the same time against the same root
\* folder, every folder holds at most one child of each name, whatever the
\* interleaving of the workers' lookups and creations.
C22_OneArtifactPerName ==
    \A f \in drive, g \in drive :
        (f.parent = g.parent /\ f.name = g.name) => f = g

(***************************************************************************)
(* Who writes what, with tasks and requests side by side (SpecFrame).      *)
(***************************************************************************)
CheckPcs == {"row_check", "name_check"}
\* What the worker of task t holds: its position and its local variables.
OwnState(t) ==
    <<pc[t], results[t], step[t], rowIdx[t], memIdx[t], nameIdx[t], folder[t],
      indiv[t]>>

\* C25: the status record of a task changes only in a step of that task's
\* own run (its submission or its worker), which leaves every other task
\* and its record as they are; a step of the status or the cancel endpoint changes no
\* status record; a task id is queued once, its input never changes and a
\* finished worker never runs again; and a worker at its cancel check
\* stops exactly when the flag of its own task is set.
C25_RecordWrittenByOwnWorker ==
    [][\A t \in Tasks :
         /\ Record(t)' # Record(t) =>
              /\ OwnState(t)' # OwnState(t)
              /\ \A u \in Tasks \ {t} :
                   OwnState(u)' = OwnState(u) /\ Record(u)' = Record(u)
         /\ (getResp' # getResp \/ cancelResp' # cancelResp \/ cancelPc' # cancelPc) =>
              UNCHANGED <<registryVars, pc, localVars>>
         /\ pc'[t] = "queued" => pc[t] \in {"none", "queued"}
         /\ pc[t] = "done" => pc'[t] = "done"
         /\ pc[t] # "none" =>
              /\ pc'[t] # "none"
              /\ kind'[t] = kind[t] /\ rows'[t] = rows[t] /\ names'[t] = names[t]
         /\ (pc[t] \in CheckPcs /\ pc'[t] # pc[t]) =>
              (pc'[t] = "cancel_results" <=> flag[t])]_vars

\* The first task was stopped by its flag and has ended as cancelled; the
\* worker of the second, beside it, has just passed a cancel check.
C25_Witness ==
    /\ flag[1] /\ ~flag[2]
    /\ status[1] = "cancelled" /\ pc[1] = "done"
    /\ status[2] = "running"
    /\ pc[2] \in {"name_find", "folder_find"}


(***************************************************************************)
(* Properties of the export of a folder tree (SpecWalk).                   *)
(***************************************************************************)
ItemOf(id) == CHOOSE f \in tree : f.id = id

\* The children the walk is to reach: those not skipped, below the walked
\* folder, with no skipped folder above them.
RECURSIVE Visitable(_)
Visitable(f) ==
    /\ ~Skipped(f)
    /\ \/ f.parent = Root
       \/ /\ \E g \in tree : g.id = f.parent
          /\ Visitable(ItemOf(f.parent))

OpsOn(id) == { i \in DOMAIN wops : wops[i].id = id }

\* The operation the export is said to choose for a type.
RouteOf(mt) ==
    CASE mt = GOOGLE_FOLDER -> "walk"
      [] mt = GOOGLE_SHEET -> "sheet_pdf"
      [] mt \in {GOOGLE_DOC, GOOGLE_SLIDE, DRAWING_MT} -> "export_pdf"
      [] OTHER -> "binary"

\* C27: every child the export visits is routed by its type and to one
\* operation only: a folder is walked, a native spreadsheet goes to the
\* fixed-layout PDF export, a document, a slide deck or a drawing to the
\* generic PDF export, and a child of any other type is downloaded raw
\* (shortcuts, which are resolved first, are left to C28).
C27_RoutedByType ==
    \A i \in DOMAIN wops :
        /\ wops[i].mimeType # SHORTCUT_MT => wops[i].op = RouteOf(wops[i].mimeType)
        /\ OpsOn(wops[i].id) = {i}

\* C28: a shortcut is never downloaded raw, and when the walk is over the
\* target of every shortcut it reached has been routed by the target's
\* own type.
C28_ShortcutResolved ==
    /\ \A i \in DOMAIN wops :
         ~(wops[i].op = "binary" /\ wops[i].mimeType = SHORTCUT_MT)
    /\ wpc = "done" =>
         \A f \in tree :
            (f.mimeType = SHORTCUT_MT /\ Visitable(f)) =>
                \E i \in OpsOn(f.target) :
                    wops[i].op = RouteOf(ItemOf(f.target).mimeType)

\* C29: the export issues at most one operation for a child, and only for
\* children that are not skipped and lie below no skipped folder; when the
\* walk has returned, every such child of the tree has had its operation,
\* whatever page of a listing it came on.
C29_EveryChildOnce ==
    /\ \A i \in DOMAIN wops :
         /\ OpsOn(wops[i].id) = {i}
         /\ \E f \in tree : f.id = wops[i].id /\ Visitable(f)
    /\ \A g \in wfiles : g.from # Root => Visitable(ItemOf(g.from))
    /\ wpc = "done" => \A f \in tree : Visitable(f) => OpsOn(f.id) # {}

\* A finished walk of the whole tree: listings of two pages, and a skipped
\* folder whose sheet was left out along with it.
C29_Witness ==
    /\ wpc = "done"
    /\ { f.id : f \in tree } = { f.id : f \in WalkItems }
    /\ skipIds = {2, 7}
    /\ Len(ChildrenOf(1)) > PageSize
    /\ OpsOn(6) # {} /\ OpsOn(9) # {}
    /\ OpsOn(7) = {} /\ OpsOn(8) = {}

\* C30: no local file written for a spreadsheet holds anything but a PDF:
\* an export answer that is not a PDF is never saved under the .pdf name.
C30_NoNonPdfSaved ==
    \A g \in wfiles :
        (g.from # Root /\ ItemOf(g.from).mimeType = GOOGLE_SHEET) =>
            g.content = "pdf"


(***************************************************************************)
(* Properties of the helper functions (SpecSafe, SpecLabel).               *)
(***************************************************************************)
\* C31: the sanitized name holds none of the characters < > : " / \ | ? *
\* (an underscore stands where one was, and the other characters of the
\* result come from the name), it does not end with a dot or with
\* whitespace, and "Group: A/B?" becomes "Group_ A_B_".
C31_SafeName ==
    ret.fn = "_safe" =>
        /\ \A i \in DOMAIN ret.val : ret.val[i] \notin BadChars
        /\ ret.val # << >> => ret.val[Len(ret.val)] \notin Whitespace \cup {"."}
        /\ arg.val = GroupAB =>
             ret.val = <<"G", "r", "o", "u", "p", "_", " ", "A", "_", "B", "_">>


\* Whether a label is a number, and then which, in units of 1/Scale.
IsNumber(val) ==
    \/ val.kind \in {"int", "float"}
    \/ val.kind = "str" /\ IsNumeral(Strip(val.text))
NumberOf(val) ==
    CASE val.kind = "int" -> val.num * Scale
      [] val.kind = "float" -> val.num
      [] OTHER -> FloatOf(Strip(val.text))

\* A number written without a trailing ".0" and without trailing zeros.
Canon(v) ==
    IF IsInteger(v) THEN IntStr(v \div Scale)
    ELSE IntStr(v \div Scale) \o <<".">> \o RStrip(Pad(v % Scale, MaxLabel), {"0"})

\* A numeral with the zeros that end its fraction, and a point that ends
\* it, taken away.
TrimZeros(s) ==
    IF PointsOf(s) = {} THEN s ELSE RStrip(RStrip(s, {"0"}), {"."})

\* C32: a label that parses as a number, given as a number or as text, is
\* returned as that number written without a trailing ".0" or trailing
\* zeros (the number rendered anew, or the given numeral trimmed: either
\* counts), and a label that is not a number is returned as it is (blanks
\* around it aside).
C32_LabelNormalized ==
    ret.fn = "_normalize_group_label" =>
        /\ IsNumber(arg.val) =>
             \/ ret.val = Canon(NumberOf(arg.val))
             \/ arg.val.kind = "str" /\ ret.val = TrimZeros(Strip(arg.val.text))
        /\ (arg.val.kind = "str" /\ ~IsNumber(arg.val)) =>
             ret.val \in {arg.val.text, Strip(arg.val.text)}


(***************************************************************************)
(* The groups worker and the mixed worker side by side (SpecTwin).         *)
(***************************************************************************)
\* Task 2 is the mixed run of the roster of the finished groups task 1,
\* and every row of the roster has more than one member.
Twins ==
    /\ kind[1] = "groups" /\ pc[1] = "done"
    /\ kind[2] = "mixed" /\ rows[2] = rows[1]
    /\ \A r \in DOMAIN rows[1] : Len(Members(rows[1][r])) > 1

\* C33: on a roster whose rows all have more than one member, the mixed
\* worker, begun from the folder state the groups worker began from, goes
\* through the groups worker's run: at every moment its remote mutations
\* and its result records are the first ones of the groups run, its
\* progress has the same total and counts the same units, and it ends
\* with the same calls, results, progress and status.
C33_MixedRunsAsGroups ==
    Twins =>
        /\ IsPrefix(calls[2], calls[1])
        /\ IsPrefix(results[2], results[1])
        /\ status[2] # "queued" => progress[2].total = progress[1].total
        /\ progress[2].current = Len(results[2])
        /\ pc[2] = "done" =>
             /\ calls[2] = calls[1]
             /\ stResults[2] = stResults[1]
             /\ progress[2] = progress[1]
             /\ status[2] = status[1]
             /\ \A f \in drive : f.id >= FirstFreeId =>
                  \E i \in DOMAIN calls[1] : calls[1][i].name = f.name


(***************************************************************************)
(* The life of a status record (Spec).                                     *)
(***************************************************************************)
StatusMoves ==
    { <<"none", "queued">>, <<"queued", "running">>, <<"running", "completed">>,
      <<"running", "cancelled">>, <<"running", "error">> }

\* C34: the status of a task changes only from queued to running and from
\* running to completed, cancelled or error (and to queued when the task
\* is submitted): it never goes back to queued or running, never leaves a
\* terminal status, and never becomes terminal from queued.
C34_StatusMovesForward ==
    [][\A t \in Tasks :
         status'[t] # status[t] => <<status[t], status'[t]>> \in StatusMoves]_vars

\* A task that was cancelled after a unit of work, its worker over.
C34_Witness ==
    \E t \in Tasks :
        /\ status[t] = "cancelled" /\ pc[t] = "done"
        /\ progress[t].current >= 1


\* C35: a task whose status is cancelled has its cancellation flag set; a
\* task whose flag is not set and whose status is terminal is completed or
\* in error.
C35_CancelledOnlyWithFlag ==
    \A t \in Tasks :
        /\ status[t] = "cancelled" => flag[t]
        /\ (status[t] \in Terminal /\ ~flag[t]) => status[t] \in {"completed", "error"}

\* A cancelled task with its flag set and its worker over, beside the
\* answer "cancelling" of the request that set the flag.
C35_Witness ==
    \E t \in Tasks :
        /\ status[t] = "cancelled" /\ flag[t] /\ finishedAt[t]
        /\ cancelResp[t] = "cancelling"


\* C36: a completed task has progress.current equal to progress.total, and
\* a cancelled task has progress.current below progress.total.
C36_ProgressAtTheEnd ==
    \A t \in Tasks :
        /\ status[t] = "completed" => progress[t].current = progress[t].total
        /\ status[t] = "cancelled" => progress[t].current < progress[t].total

\* A task cancelled one unit short of its total.
C36_Witness ==
    \E t \in Tasks :
        /\ status[t] = "cancelled"
        /\ progress[t].current >= 1
        /\ progress[t].current = progress[t].total - 1


\* C37 as stated: the results field of a status record is the empty list
\* whenever the status is queued, running or error.
C37_ResultsEmptyUntilTerminal ==
    \A t \in Tasks :
        status[t] \in {"queued", "running", "error"} => stResults[t] = <<>>

\* C37: the results field of a status record is the empty list whenever the
\* status is queued or error, and while the status is running until the
\* worker's write of its full list, the statement before the one that sets
\* the status completed or cancelled.
C37_ResultsEmptyUntilLastWrite ==
    \A t \in Tasks :
        /\ status[t] \in {"queued", "error"} => stResults[t] = <<>>
        /\ status[t] = "running" =>
               \/ stResults[t] = <<>>
               \/ /\ pc[t] \in {"cancel_status", "complete_status"}
                  /\ stResults[t] = results[t]

\* A failed task whose worker had completed units: its record shows none.
C37_Witness ==
    \E t \in Tasks :
        /\ status[t] = "error" /\ finishedAt[t]
        /\ results[t] # <<>>
        /\ stResults[t] = <<>>


(***************************************************************************)
(* The results a poller reads (SpecPoll).                                  *)
(***************************************************************************)
\* C38: a poller that reads status completed or cancelled reads, in the same
\* record, the worker's full results list, and from the moment the record
\* has that status its results field never changes.
C38_ResultsBeforeStatus ==
    [][\A t \in Tasks :
          /\ ( /\ getResp'.code = "200"
               /\ getResp'.task_id = t
               /\ getResp'.status \in {"completed", "cancelled"} ) =>
                  getResp'.results = results'[t]
          /\ status[t] \in {"completed", "cancelled"} =>
                  /\ stResults[t] = results[t]
                  /\ stResults'[t] = stResults[t]
                  /\ results'[t] = results[t]]_vars

\* A poller has read a cancelled record holding the records of the units
\* done before the cancellation, and the worker is over.
C38_Witness ==
    /\ getResp.code = "200"
    /\ getResp.status = "cancelled"
    /\ getResp.results # <<>>
    /\ getResp.results = results[getResp.task_id]
    /\ pc[getResp.task_id] = "done"


(***************************************************************************)
(* Termination of the workers (SpecLive).                                  *)
(***************************************************************************)
\* C39: when every remote call returns or raises, every submitted task
\* reaches one of the statuses completed, cancelled and error and then has
\* finished_at set.
C39_EveryTaskEnds ==
    \A t \in Tasks :
        (status[t] # "none") ~> (status[t] \in Terminal /\ finishedAt[t])

\* A task that ran to completion although its flag was set on the way, with
\* finished_at set and its worker over.
C39_Witness ==
    \E t \in Tasks :
        /\ pc[t] = "done" /\ finishedAt[t]
        /\ status[t] = "completed" /\ flag[t]
        /\ Len(results[t]) >= 2


(***************************************************************************)
(* The two maps of the registry (SpecRegistry).                            *)
(***************************************************************************)
\* C40: a task id that has a status record has one in every later state;
\* every task id with a status record has a cancellation flag; and a flag
\* that is set is never cleared.
C40_RegistryKept ==
    [][\A t \in Tasks :
          /\ HasRecord(t) => HasRecord(t)'
          /\ HasRecord(t)' => HasFlag(t)'
          /\ (HasFlag(t) /\ flag[t]) => (HasFlag(t)' /\ flag'[t])]_vars

\* Both ids have a record; the first task's flag was set and its worker is
\* over, and the second, whose flag is not set, is running.
C40_Witness ==
    /\ HasRecord(1) /\ HasFlag(1) /\ flag[1] /\ pc[1] = "done"
    /\ HasRecord(2) /\ HasFlag(2) /\ ~flag[2] /\ status[2] = "running"

=============================================================================
